---- MODULE Spec2Model ----
(***************************************************************************)
(* PyNETGEN: the NETGEN random flow-network generator, its pseudo-random   *)
(* number generators and its index list, modelled from                     *)
(*   src/src/pynetgen/util/randit.py   (StandardRandom, NetgenRandom)      *)
(*   src/src/pynetgen/util/ilist.py    (IndexList)                         *)
(*   src/src/pynetgen/gen/netgen.py    (NetgenNetworkGenerator)            *)
(*   src/src/pynetgen/gen/grid.py      (GridNetworkGenerator)              *)
(*                                                                         *)
(* Seven specifications share the variables below:                         *)
(*   Spec     one NetgenNetworkGenerator object, from its constructor call *)
(*            through _create_problem to write()                           *)
(*   SpecLive the same object under fair scheduling and fair draws         *)
(*   SpecIL   one IndexList object under arbitrary pop/remove calls        *)
(*   SpecRng  one NetgenRandom object under arbitrary generate/reset calls *)
(*   SpecProc two generator objects of one process and the random module   *)
(*   SpecGrid one GridNetworkGenerator object, from its constructor call   *)
(*            through _create_problem to write()                           *)
(*   SpecSort one call of _sort_skeleton on arbitrary lists                *)
(***************************************************************************)
EXTENDS Integers, Sequences, FiniteSets, TLC

VARIABLES
    \* ---- the random number generator object (self.Rng / a NetgenRandom)
    seed,          \* Rng.seed
    previous,      \* Rng.previous
    rngCall,       \* record of the most recent call on the generator object
    proc,          \* the generator objects of one process and the state of
                   \* the random module that they call (SpecProc)
    \* ---- an IndexList object (IndList in netgen.py, the object of SpecIL)
    IndList,       \* [items |-> sequence of the list, ps |-> _pseudo_size]
    ilCall,        \* record of the most recent call on the list (SpecIL)
    \* ---- NetgenNetworkGenerator attributes
    P,             \* the keyword arguments of the constructor
    pc,            \* position in __init__ / _create_problem / _pick_head
    err,           \* the exception that ended the constructor, or NoErr
    arc_count,     \* self._arc_count
    nodes_left,    \* self._nodes_left
    b,             \* self._b
    ptype,         \* self._type
    arc_from,      \* self._from
    arc_to,        \* self._to
    arc_c,         \* self._c
    arc_u,         \* self._u
    out,           \* what write() has put on the problem line and after it
    arcs,          \* self._arcs of a GridNetworkGenerator (SpecGrid)
    \* ---- locals of _create_problem and _pick_head
    pred, head, tail, sinks,
    i, source, sort_count, sinks_per_source, chain_length,
    supply_per_sink, k, it, limit, upper_bound, desired_tail, ph_ret

rngVars == <<seed, previous, rngCall, proc>>
ilVars  == <<IndList, ilCall>>
objVars == <<P, err, arc_count, nodes_left, b, ptype,
             arc_from, arc_to, arc_c, arc_u, out, arcs>>
locVars == <<pred, head, tail, sinks, i, source, sort_count,
             sinks_per_source, chain_length, supply_per_sink, k, it,
             limit, upper_bound, desired_tail, ph_ret>>
genVars == <<pc, objVars, locVars>>
vars    == <<rngVars, ilVars, genVars>>

-----------------------------------------------------------------------------
(* Python values *)

\* Python's None, as stored in freshly allocated lists and in type=None.
\* Every integer the program stores in those places is >= 0.
None == -1

Min(x, y) == IF x <= y THEN x ELSE y
Max(x, y) == IF x >= y THEN x ELSE y

\* int(x / y) for integers x and y > 0: the quotient truncated toward zero
TruncDiv(x, y) == IF x >= 0 THEN x \div y ELSE -((-x) \div y)

\* a Python list of length n, [v for i in range(n)], indexed from 0
NewList(n, v) == [x \in 0..(n - 1) |-> v]
ListLen(l) == Cardinality(DOMAIN l)
\* l[x] raises IndexError unless 0 <= x < len(l)
InRange(l, x) == x \in DOMAIN l

RECURSIVE SumList(_, _)
SumList(l, n) == IF n = 0 THEN 0 ELSE l[n - 1] + SumList(l, n - 1)

-----------------------------------------------------------------------------
(* randit.py *)

Modulus == 2147483647
Multiplier == 16807

\* NetgenRandom.generate, lines 151-158: the values that hi and lo take, in
\* the order of the assignments, and the sum of line 161.
\* x >> 16 is x \div 65536, x & 0xffff is x % 65536, x & 0x7fff is x % 32768.
HiLo(s) ==
    LET hi0 == Multiplier * (s \div 65536)
        lo0 == Multiplier * (s % 65536)
        hi1 == hi0 + (lo0 \div 65536)
        lo1 == lo0 % 65536
        lo2 == lo1 + (hi1 \div 32768)
        hi2 == hi1 % 32768
        lo3 == lo2 - Modulus
    IN  [hi |-> <<hi0, hi1, hi2>>, lo |-> <<lo0, lo1, lo2, lo3>>,
         sum |-> (hi2 * 65536) + lo3]

\* A next value of self.previous without the correction of lines 162-163.
NextPreviousUncorrected(s) == HiLo(s).sum

\* NetgenRandom.generate, lines 151-163: the next value of self.previous.
NextPrevious(s) ==
    LET s1 == HiLo(s).sum
    IN  IF s1 < 0 THEN s1 + Modulus ELSE s1

\* generate(a, b) raises ValueError when a bound is negative (lines 148-149)
BadBounds(a, bb) == a < 0 \/ bb < 0

\* A generate that returns b for b <= a before it touches the state.
NetgenGenerateShortCircuit(s, a, bb) ==
    IF bb <= a THEN [r |-> bb, p |-> s]
    ELSE [r |-> a + (NextPrevious(s) % (bb - a + 1)), p |-> NextPrevious(s)]

\* NetgenRandom.generate(a, b) on state s: [r |-> returned value, p |-> new
\* self.previous] (lines 151-169)
NetgenGenerate(s, a, bb) ==
    LET p == NextPrevious(s)
    IN  [r |-> IF bb <= a THEN bb ELSE a + (p % (bb - a + 1)), p |-> p]

\* StandardRandom.generate(a, b): random.randint may return any number of
\* [min(a,b), max(a,b)]; that number becomes self.previous (lines 98-105)
StandardGenerate(a, bb) ==
    { [r |-> IF bb <= a THEN bb ELSE num, p |-> num] :
        num \in Min(a, bb)..Max(a, bb) }

\* The outcomes of self.Rng.generate(a, b) for the generator kind kind
\* (0: NetgenRandom, 1: StandardRandom) on state s.
Generate(kind, s, a, bb) ==
    IF kind = 0 THEN {NetgenGenerate(s, a, bb)} ELSE StandardGenerate(a, bb)

\* The same call when another generate call follows before the object is
\* observed: StandardRandom's self.previous is then overwritten by the later
\* call, so only the returned values are kept apart.
GenerateThen(kind, s, a, bb) ==
    IF kind = 0 THEN {NetgenGenerate(s, a, bb)}
    ELSE { [r |-> d.r, p |-> s] : d \in StandardGenerate(a, bb) }

-----------------------------------------------------------------------------
(* ilist.py *)

RECURSIVE Range(_, _)
Range(a, bb) == IF bb < a THEN <<>> ELSE <<a>> \o Range(a + 1, bb)

\* IndexList(a, b) with integer bounds raises ValueError when b < a (line 59)
IndexListBad(a, bb) == bb < a

\* IndexList(a, b), lines 62-64
IndexList(a, bb) == [items |-> Range(a, bb), ps |-> bb - a + 1]

\* IndexList() with a bound missing, lines 43-47
EmptyIndexList == [items |-> <<>>, ps |-> 0]

\* len(L)
Length(L) == Len(L.items)

\* the pseudo_size property, line 137
PseudoSize(L) == Max(L.ps, 0)

\* the element before position n is deleted, if there is one
RemoveBefore(s, n) == SubSeq(s, 1, n - 2) \o SubSeq(s, n, Len(s))

\* list.pop(n - 1), line 93: the element at position n, counted from 1, is
\* deleted
RemoveAt(s, n) == SubSeq(s, 1, n - 1) \o SubSeq(s, n + 1, Len(s))

\* IndexList.pop(index), lines 84-93: [l |-> the list afterwards,
\* r |-> the returned value]
PopDecrementing(L, index) ==
    IF index < 1 \/ index > Len(L.items)
    THEN [l |-> [L EXCEPT !.ps = IF L.ps > 0 THEN L.ps - 1 ELSE L.ps], r |-> 0]
    ELSE [l |-> [items |-> RemoveAt(L.items, index),
                 ps |-> IF L.ps > 0 THEN L.ps - 1 ELSE L.ps],
          r |-> L.items[index]]

\* A pop that leaves the pseudo size as it is.
PopKeepingPseudoSize(L, index) ==
    IF index < 1 \/ index > Len(L.items)
    THEN [l |-> L, r |-> 0]
    ELSE [l |-> [items |-> RemoveAt(L.items, index), ps |-> L.ps],
          r |-> L.items[index]]

Pop(L, index) ==
    IF index < 1 \/ index > Len(L.items)
    THEN [l |-> L, r |-> 0]
    ELSE [l |-> [items |-> RemoveAt(L.items, index),
                 ps |-> IF L.ps > 0 THEN L.ps - 1 ELSE L.ps],
          r |-> L.items[index]]

\* the default argument of pop, line 68
PopDefaultIndex == -1

\* list.remove(value): the first occurrence of value is deleted, if any
RemoveFirst(s, v) ==
    IF \E n \in 1..Len(s) : s[n] = v
    THEN RemoveAt(s, CHOOSE n \in 1..Len(s) :
                        s[n] = v /\ \A m \in 1..(n - 1) : s[m] # v)
    ELSE s

\* A remove that counts only the values it finds.
RemoveIfPresent(L, v) ==
    [items |-> RemoveFirst(L.items, v),
     ps |-> IF \E n \in 1..Len(L.items) : L.items[n] = v
            THEN PseudoSize(L) - 1 ELSE L.ps]

\* IndexList.remove(index), lines 112-119; line 113 reads the property and
\* stores one less through the setter
Remove(L, v) == [items |-> RemoveFirst(L.items, v), ps |-> PseudoSize(L) - 1]

-----------------------------------------------------------------------------
(* netgen.py: parameters *)

\* bounds of the parameter records the constructor is called with
MaxNodes == 5
MaxStandardNodes == 4
MaxExtraArcs == 3
MaxSupply == 2
MaxSeed == 2

\* the attributes read all over netgen.py
nodes       == P.nodes
sources     == P.sources
sinks_n     == P.sinks
density     == P.density
mincost     == P.mincost
maxcost     == P.maxcost
tsources    == P.tsources
tsinks      == P.tsinks
hicost      == P.hicost
capacitated == P.capacitated
mincap      == P.mincap
maxcap      == P.maxcap
\* self.supply = max(int(supply), 0), line 90
supply      == Max(P.supply, 0)

NoErr == [kind |-> "none", line |-> 0]

\* __init__, lines 68-123: the line of the first raise, 0 when none is reached
ValidationError(p) ==
    IF p.nodes < 0 THEN 72
    ELSE IF p.sources < 0 THEN 75
    ELSE IF p.sinks < 0 THEN 78
    ELSE IF p.sources + p.sinks > p.nodes THEN 80
    ELSE IF p.density < 1 THEN 83
    ELSE IF p.nodes > p.density THEN 85
    ELSE IF p.mincost > p.maxcost THEN 89
    ELSE IF p.tsources < 0 THEN 93
    ELSE IF p.tsources > p.sources THEN 95
    ELSE IF p.tsinks < 0 THEN 98
    ELSE IF p.tsinks > p.sinks THEN 100
    ELSE IF p.hicost < 0 \/ p.hicost > 100 THEN 103
    ELSE IF p.capacitated < 0 \/ p.capacitated > 100 THEN 106
    ELSE IF p.mincap > p.maxcap THEN 110
    ELSE IF p.type # None /\ (p.type < 0 \/ p.type > 2) THEN 115
    ELSE IF p.rng # 0 /\ p.rng # 1 THEN 123
    ELSE 0

\* A classification that forgets the supply condition of a transportation
\* problem.
ClassifyNoSupply(p) ==
    IF p.type = None
    THEN IF /\ p.sources - p.tsources + p.sinks - p.tsinks = p.nodes
            /\ p.sources - p.tsources = p.sinks - p.tsinks
         THEN 2
         ELSE IF p.mincost = 1 /\ p.maxcost = 1 THEN 1 ELSE 0
    ELSE 0

\* __init__, lines 130 and 136-145: the value of self._type
Classify(p) ==
    IF p.type = None
    THEN IF /\ p.sources - p.tsources + p.sinks - p.tsinks = p.nodes
            /\ p.sources - p.tsources = p.sinks - p.tsinks
            /\ p.sources = Max(p.supply, 0)
         THEN 2
         ELSE IF p.mincost = 1 /\ p.maxcost = 1 THEN 1 ELSE 0
    ELSE 0

\* An arc array with room for one arc more than the density.
NewArcListLonger(dn) == NewList(dn + 1, None)

\* __init__, lines 131-134: an arc array, [None for i in range(self.density)]
NewArcList(dn) == NewList(dn, None)

\* the number of transshipment nodes and the end of the first range, line 177
T == nodes - sources - sinks_n
Split == TruncDiv((4 * T) + 9, 10)

-----------------------------------------------------------------------------
(* netgen.py: the constructor *)

arcVars   == <<arc_from, arc_to, arc_c, arc_u, arc_count>>
fixedVars == <<P, seed, rngCall, proc, ilCall, ptype, out, arcs>>
phVars    == <<limit, upper_bound, desired_tail, ph_ret>>
linkVars  == <<sinks, sinks_per_source, chain_length, supply_per_sink, k>>

\* an exception leaves the constructor; the object is never returned
Raise(kind, line) ==
    /\ pc' = "error"
    /\ err' = [kind |-> kind, line |-> line]
    /\ UNCHANGED <<seed, previous, rngCall, proc, ilVars, P, arc_count, nodes_left,
                   b, ptype, arc_from, arc_to, arc_c, arc_u, out, arcs, locVars>>

\* no generator object yet: nothing is allocated and the locals are unset
NoObject ==
    /\ err = NoErr
    /\ arc_count = 0 /\ nodes_left = 0 /\ ptype = 0
    /\ b = <<>> /\ arc_from = <<>> /\ arc_to = <<>>
    /\ arc_c = <<>> /\ arc_u = <<>>
    /\ out = <<>>
    /\ arcs = <<>>
    /\ pred = <<>> /\ head = <<>> /\ tail = <<>> /\ sinks = <<>>
    /\ i = 0 /\ source = 0 /\ sort_count = 0 /\ sinks_per_source = 0
    /\ chain_length = 0 /\ supply_per_sink = 0 /\ k = 0 /\ it = 0
    /\ limit = 0 /\ upper_bound = 0 /\ desired_tail = 0 /\ ph_ret = "none"

\* the state before the constructor is called with the keyword arguments p
BeforeInit(p) ==
    /\ P = p
    /\ pc = "new"
    /\ seed = 0 /\ previous = 0
    /\ IndList = EmptyIndexList
    /\ NoObject

\* __init__, lines 68-145: validation, the Rng object (set_seed and reset,
\* randit.py lines 56-68, for a seed > 0), the attributes and the type
Construct ==
    /\ pc = "new"
    /\ IF ValidationError(P) # 0
       THEN /\ pc' = "rejected"
            /\ err' = [kind |-> "ValueError", line |-> ValidationError(P)]
            /\ UNCHANGED <<seed, previous, rngCall, proc, ilVars, P, arc_count,
                           nodes_left, b, ptype, arc_from, arc_to, arc_c,
                           arc_u, out, arcs, locVars>>
       ELSE /\ seed' = P.seed
            /\ previous' = P.seed
            /\ arc_count' = 0
            /\ nodes_left' = (nodes - sinks_n) + tsinks
            /\ b' = NewList(nodes, 0)
            /\ arc_from' = NewArcList(density)
            /\ arc_to' = NewArcList(density)
            /\ arc_c' = NewArcList(density)
            /\ arc_u' = NewArcList(density)
            /\ ptype' = Classify(P)
            /\ pc' = "dispatch"
            /\ UNCHANGED <<rngCall, proc, ilVars, P, err, out, arcs, locVars>>

\* __init__ line 148-149 and _create_assignment, line 306: range() of the
\* float self.nodes/2 raises TypeError before anything is assigned
CreateAssignment ==
    /\ pc = "dispatch"
    /\ P.type = 2
    /\ Raise("TypeError", 306)

\* __init__ line 150, _create_problem lines 158-163 and _create_supply
\* line 336: the scratch lists, and supply_per_source
CreateProblem ==
    /\ pc = "dispatch"
    /\ P.type # 2
    /\ IF sources = 0
       THEN Raise("ZeroDivisionError", 336)
       ELSE /\ pred' = NewList(nodes, None)
            /\ head' = NewList(density, None)
            /\ tail' = NewList(density, None)
            /\ i' = 0
            /\ pc' = "supply"
            /\ UNCHANGED <<rngVars, ilVars, objVars, sinks, source,
                           sort_count, sinks_per_source, chain_length,
                           supply_per_sink, k, it, phVars>>

\* A supply per source that is rounded up.
SupplyPerSourceRoundedUp == TruncDiv((supply + sources) - 1, sources)

\* _create_supply, line 336: int(self.supply/self.sources)
supply_per_source == TruncDiv(supply, sources)

\* _create_supply, lines 337-341: one pass of the loop
CreateSupplyStep ==
    /\ pc = "supply"
    /\ i < sources
    /\ \E d1 \in GenerateThen(P.rng, previous, 1, supply_per_source) :
       \E d2 \in Generate(P.rng, d1.p, 0, sources - 1) :
          LET b1 == [b EXCEPT ![i] = @ + d1.r]
          IN  /\ b' = [b1 EXCEPT ![d2.r] = @ + (supply_per_source - d1.r)]
              /\ previous' = d2.p
    /\ i' = i + 1
    /\ UNCHANGED <<pc, seed, rngCall, proc, ilVars, P, err, arc_count, nodes_left,
                   ptype, arc_from, arc_to, arc_c, arc_u, out, arcs, pred, head,
                   tail, sinks, source, sort_count, sinks_per_source,
                   chain_length, supply_per_sink, k, it, phVars>>

\* where _create_problem goes when the first range (line 177) is done or
\* empty: the while loop of line 187 runs as long as i > 1
AfterChain(ii) == IF ii > 1 THEN "phaseB" ELSE "collect"

\* _create_supply lines 342-343, then _create_problem lines 169-178: the
\* sources point at themselves, the index list of the transshipment nodes,
\* and the start of the first range.  An empty range leaves i as the loop
\* of line 169 left it.
ChainStart ==
    /\ pc = "supply"
    /\ i = sources
    /\ \E d \in Generate(P.rng, previous, 0, sources - 1) :
         IF sources > nodes - 1
         THEN Raise("IndexError", 170)
         ELSE IF IndexListBad(sources + 1, nodes - sinks_n)
         THEN Raise("ValueError", 173)
         ELSE /\ b' = [b EXCEPT ![d.r] = @ + (supply % sources)]
              /\ previous' = d.p
              /\ pred' = [x \in DOMAIN pred |->
                            IF x \in 1..sources THEN x ELSE pred[x]]
              /\ IndList' = IndexList(sources + 1, nodes - sinks_n)
              /\ source' = 1
              /\ i' = IF T > Split THEN T ELSE sources
              /\ pc' = IF T > Split THEN "phaseA" ELSE AfterChain(sources)
              /\ UNCHANGED <<seed, rngCall, proc, ilCall, P, err, arc_count,
                             nodes_left, ptype, arc_from, arc_to, arc_c,
                             arc_u, out, arcs, head, tail, sinks, sort_count,
                             sinks_per_source, chain_length, supply_per_sink,
                             k, it, phVars>>

\* _create_problem, lines 177-184: one pass of the round-robin loop
PhaseA ==
    /\ pc = "phaseA"
    /\ \E d \in Generate(P.rng, previous, 1, Length(IndList)) :
         LET res  == Pop(IndList, d.r)
             node == res.r
         IN  IF ~InRange(pred, node)
             THEN Raise("IndexError", 180)
             ELSE /\ previous' = d.p
                  /\ IndList' = res.l
                  /\ pred' = [pred EXCEPT ![node] = pred[source],
                                          ![source] = node]
                  /\ source' = IF source + 1 > sources THEN 1 ELSE source + 1
                  /\ i' = IF i - 1 > Split THEN i - 1 ELSE i
                  /\ pc' = IF i - 1 > Split THEN "phaseA" ELSE AfterChain(i)
                  /\ UNCHANGED <<seed, rngCall, proc, ilCall, objVars, head, tail,
                                 sinks, sort_count, sinks_per_source,
                                 chain_length, supply_per_sink, k, it, phVars>>

\* _create_problem, lines 187-192: one pass of the random loop; when it
\* ends, the loop of line 200 starts with source 1
PhaseB ==
    /\ pc = "phaseB"
    /\ i > 1
    /\ \E d1 \in GenerateThen(P.rng, previous, 1, Length(IndList)) :
       \E d2 \in Generate(P.rng, d1.p, 1, sources) :
         LET res  == Pop(IndList, d1.r)
             node == res.r
             src  == d2.r
         IN  IF ~InRange(pred, node)
             THEN Raise("IndexError", 191)
             ELSE /\ previous' = d2.p
                  /\ IndList' = res.l
                  /\ pred' = [pred EXCEPT ![node] = pred[src], ![src] = node]
                  /\ source' = IF i - 1 > 1 THEN src ELSE 1
                  /\ i' = i - 1
                  /\ pc' = AfterChain(i - 1)
                  /\ UNCHANGED <<seed, rngCall, proc, ilCall, objVars, head, tail,
                                 sinks, sort_count, sinks_per_source,
                                 chain_length, supply_per_sink, k, it, phVars>>

-----------------------------------------------------------------------------
(* netgen.py: linking one source chain to sinks *)

\* _create_problem, lines 206-210: the chain of source s is walked backwards
\* from node nd; sc, hd, tl are sort_count, head and tail so far.  The walk
\* stops with ok = FALSE where head[sort_count] raises IndexError.
RECURSIVE WalkChain(_, _, _, _, _)
WalkChain(s, nd, sc, hd, tl) ==
    IF nd = s
    THEN [ok |-> TRUE, sc |-> sc, head |-> hd, tail |-> tl]
    ELSE IF ~InRange(hd, sc + 1)
    THEN [ok |-> FALSE, sc |-> sc, head |-> hd, tail |-> tl]
    ELSE WalkChain(s, pred[nd], sc + 1,
                   [hd EXCEPT ![sc + 1] = nd],
                   [tl EXCEPT ![sc + 1] = pred[nd]])

\* _create_problem, lines 213-218, for a chain of sc nodes
SinksPerSource(sc) ==
    LET raw == IF nodes = sources + sinks_n
               THEN TruncDiv(sinks_n, sources) + 1
               ELSE 2 * TruncDiv(sc * sinks_n, T)
    IN  Max(2, Min(raw, sinks_n))

\* _create_problem, lines 202-222: the chain of this source, the number of
\* sinks to link it to, and the index list of the sinks
CollectChain ==
    /\ pc = "collect"
    /\ LET w == WalkChain(source, pred[source], 0, head, tail)
       IN  IF ~w.ok
           THEN Raise("IndexError", 208)
           ELSE IF IndexListBad(nodes - sinks_n, nodes - 1)
           THEN Raise("ValueError", 222)
           ELSE /\ sort_count' = w.sc
                /\ head' = w.head
                /\ tail' = w.tail
                /\ sinks_per_source' = SinksPerSource(w.sc)
                /\ sinks' = NewList(nodes, None)
                /\ IndList' = IndexList(nodes - sinks_n, nodes - 1)
                /\ i' = 0
                /\ pc' = "select"
                /\ UNCHANGED <<rngVars, ilCall, objVars, pred, source,
                               chain_length, supply_per_sink, k, it, phVars>>

\* _create_problem, lines 223-224: one pass of the loop
SelectSink ==
    /\ pc = "select"
    /\ i < sinks_per_source
    /\ \E d \in Generate(P.rng, previous, 1, Length(IndList)) :
         LET res == Pop(IndList, d.r)
         IN  IF ~InRange(sinks, i)
             THEN Raise("IndexError", 224)
             ELSE /\ previous' = d.p
                  /\ IndList' = res.l
                  /\ sinks' = [sinks EXCEPT ![i] = res.r]
                  /\ i' = i + 1
                  /\ pc' = IF i + 1 < sinks_per_source
                           THEN "select" ELSE "backfill"
                  /\ UNCHANGED <<seed, rngCall, proc, ilCall, objVars, pred, head,
                                 tail, source, sort_count, sinks_per_source,
                                 chain_length, supply_per_sink, k, it, phVars>>

\* _create_problem, lines 228-232: the sinks left in the list are popped from
\* the front, and those whose supply is still 0 are appended to sinks
RECURSIVE Unselected(_, _, _)
Unselected(L, sk, sps) ==
    IF Length(L) = 0
    THEN [sinks |-> sk, sps |-> sps, l |-> L]
    ELSE LET res == Pop(L, 1)
         IN  IF b[res.r] = 0
             THEN Unselected(res.l, [sk EXCEPT ![sps] = res.r], sps + 1)
             ELSE Unselected(res.l, sk, sps)

\* _create_problem, lines 227-239: the last source takes the unselected
\* sinks; then the supply per sink and the end of the chain
Backfill ==
    /\ pc = "backfill"
    /\ LET u == IF source = sources /\ Length(IndList) > 0
                THEN Unselected(IndList, sinks, sinks_per_source)
                ELSE [sinks |-> sinks, sps |-> sinks_per_source, l |-> IndList]
       IN  /\ sinks' = u.sinks
           /\ sinks_per_source' = u.sps
           /\ IndList' = u.l
           /\ chain_length' = sort_count
           /\ supply_per_sink' = b[source - 1] \div u.sps
           /\ k' = pred[source]
           /\ i' = 0
           /\ pc' = "distribute"
           /\ UNCHANGED <<rngVars, ilCall, objVars, pred, head, tail, source,
                          sort_count, it, phVars>>

\* a tail for the next sink that is no node of the chain
StepsBackOffChain(kk, n) == 0

\* k = pred[k], n times (lines 249-250)
RECURSIVE StepsBack(_, _)
StepsBack(kk, n) == IF n <= 0 THEN kk ELSE StepsBack(pred[kk], n - 1)

\* _create_problem, lines 240-250: one pass of the loop: a skeleton arc from
\* the chain to sink i, and the supply taken from two sinks
Distribute ==
    /\ pc = "distribute"
    /\ i < sinks_per_source
    /\ IF BadBounds(1, supply_per_sink)
       THEN Raise("ValueError", 242)
       ELSE
       \E d1 \in GenerateThen(P.rng, previous, 1, supply_per_sink) :
       \E d2 \in GenerateThen(P.rng, d1.p, 0, sinks_per_source - 1) :
         IF ~InRange(tail, sort_count + 1)
         THEN Raise("IndexError", 244)
         ELSE
         \E d3 \in Generate(P.rng, d2.p, 1, chain_length) :
           LET b1 == [b EXCEPT ![sinks[i]] = @ - d1.r]
           IN  /\ previous' = d3.p
               /\ sort_count' = sort_count + 1
               /\ tail' = [tail EXCEPT ![sort_count + 1] = k]
               /\ head' = [head EXCEPT ![sort_count + 1] = sinks[i] + 1]
               /\ b' = [b1 EXCEPT ![sinks[d2.r]] =
                                       @ - (supply_per_sink - d1.r)]
               /\ k' = StepsBack(source, d3.r)
               /\ i' = i + 1
               /\ pc' = IF i + 1 < sinks_per_source
                        THEN "distribute" ELSE "sortskel"
               /\ UNCHANGED <<seed, rngCall, proc, ilVars, P, err, arc_count,
                              nodes_left, ptype, arc_from, arc_to, arc_c,
                              arc_u, out, arcs, pred, sinks, source,
                              sinks_per_source, chain_length,
                              supply_per_sink, it, phVars>>

-----------------------------------------------------------------------------
(* netgen.py: _sort_skeleton *)

SwapAt(f, x, y) == [f EXCEPT ![x] = f[y], ![y] = f[x]]

\* lines 356-359: the while loop started at index x with gap m
RECURSIVE SortInner(_, _, _)
SortInner(x, m, th) ==
    IF x >= 1 /\ th.tail[x] > th.tail[x + m]
    THEN SortInner(x - m, m, [tail |-> SwapAt(th.tail, x, x + m),
                              head |-> SwapAt(th.head, x, x + m)])
    ELSE th

\* lines 354-359: the for loop from j to kk with gap m
RECURSIVE SortPass(_, _, _, _)
SortPass(j, kk, m, th) ==
    IF j > kk THEN th ELSE SortPass(j + 1, kk, m, SortInner(j, m, th))

\* A loop over the gaps that stops before the gap 1.
RECURSIVE SortGapsAboveOne(_, _, _)
SortGapsAboveOne(m, sc, th) ==
    IF m <= 1 THEN th
    ELSE SortGapsAboveOne(m \div 2, sc, SortPass(1, sc - m, m, th))

\* lines 352-360: the loop over the gaps m, m // 2, ...
RECURSIVE SortGaps(_, _, _)
SortGaps(m, sc, th) ==
    IF m = 0 THEN th
    ELSE SortGaps(m \div 2, sc, SortPass(1, sc - m, m, th))

\* _sort_skeleton(sort_count, tail, head), lines 350-360
SortSkeleton(sc, tl, hd) == SortGaps(sc \div 2, sc, [tail |-> tl, head |-> hd])

-----------------------------------------------------------------------------
(* netgen.py: skeleton arcs and _pick_head *)

\* generate(a, b), followed by another generate call or not
GenerateIf(kind, s, a, bb, followed) ==
    IF followed THEN GenerateThen(kind, s, a, bb) ELSE Generate(kind, s, a, bb)

\* The outcomes of the test generate(1, 100) <= pct: le is its value, p the
\* new self.previous.  thenLE / thenGT: another generate call follows when
\* the test is true / false.
Percent(kind, s, pct, thenLE, thenGT) ==
    { [le |-> d.r <= pct,
       p  |-> IF kind = 1 /\ ((d.r <= pct /\ thenLE) \/ (d.r > pct /\ thenGT))
              THEN s ELSE d.p] : d \in Generate(kind, s, 1, 100) }

\* _create_problem, lines 251-258: the remainder of the supply goes to the
\* first sink, the skeleton arcs are sorted by tail and closed by a 0
FinishLinks ==
    /\ pc = "sortskel"
    /\ IF ~InRange(tail, sort_count + 1)
       THEN Raise("IndexError", 255)
       ELSE LET th == SortSkeleton(sort_count, tail, head)
            IN  /\ b' = [b EXCEPT ![sinks[0]] =
                                      @ - (b[source - 1] % sinks_per_source)]
                /\ tail' = [th.tail EXCEPT ![sort_count + 1] = 0]
                /\ head' = th.head
                /\ i' = 1
                /\ pc' = "skel_group"
                /\ UNCHANGED <<rngVars, ilVars, P, err, arc_count, nodes_left,
                               ptype, arc_from, arc_to, arc_c, arc_u, out, arcs,
                               pred, sinks, source, sort_count,
                               sinks_per_source, chain_length,
                               supply_per_sink, k, it, phVars>>

\* _create_problem, lines 259-263: the index list of the heads that the
\* tail tail[i] may still get
SkeletonGroup ==
    /\ pc = "skel_group"
    /\ i <= sort_count
    /\ IF IndexListBad((sources - tsources) + 1, nodes)
       THEN Raise("ValueError", 261)
       ELSE /\ IndList' = Remove(IndexList((sources - tsources) + 1, nodes),
                                 tail[i])
            /\ it' = tail[i]
            /\ pc' = "skel_arc"
            /\ UNCHANGED <<rngVars, ilCall, objVars, pred, head, tail, sinks,
                           i, source, sort_count, sinks_per_source,
                           chain_length, supply_per_sink, k, phVars>>

\* the capacity of a skeleton arc without the floor of mincap
SkeletonCapNoFloor(le, bsource) ==
    IF le THEN bsource ELSE supply

\* _create_problem, lines 270-272: the capacity of a skeleton arc: the supply
\* of the chain's source, or mincap when that is less, when the arc is
\* capacitated (le), and the total supply when it is not
SkeletonCap(le, bsource) ==
    IF le THEN Max(bsource, mincap) ELSE supply

\* _create_problem, lines 265-288: one skeleton arc gets its capacity and
\* cost and is recorded; after the last arc of the tail, _pick_head is called
SkeletonArc ==
    /\ pc = "skel_arc"
    /\ \E d1 \in Percent(P.rng, previous, capacitated, TRUE, TRUE) :
       \E d2 \in Percent(P.rng, d1.p, hicost, FALSE, TRUE) :
         LET cap == SkeletonCap(d1.le, b[source - 1])
         IN  IF ~d2.le /\ BadBounds(mincost, maxcost)
             THEN Raise("ValueError", 277)
             ELSE
             \E d3 \in IF d2.le THEN {[r |-> maxcost, p |-> d2.p]}
                       ELSE Generate(P.rng, d2.p, mincost, maxcost) :
               IF ~InRange(arc_from, arc_count)
               THEN Raise("IndexError", 280)
               ELSE IF ~InRange(tail, i + 1)
               THEN Raise("IndexError", 265)
               ELSE /\ previous' = d3.p
                    /\ IndList' = Remove(IndList, head[i])
                    /\ arc_from' = [arc_from EXCEPT ![arc_count] = it]
                    /\ arc_to' = [arc_to EXCEPT ![arc_count] = head[i]]
                    /\ arc_c' = [arc_c EXCEPT ![arc_count] = d3.r]
                    /\ arc_u' = [arc_u EXCEPT ![arc_count] = cap]
                    /\ arc_count' = arc_count + 1
                    /\ i' = i + 1
                    /\ IF it = tail[i + 1]
                       THEN /\ pc' = "skel_arc"
                            /\ UNCHANGED <<desired_tail, ph_ret>>
                       ELSE /\ pc' = "pick_head"
                            /\ desired_tail' = it
                            /\ ph_ret' = "skel_group"
                    /\ UNCHANGED <<seed, rngCall, proc, ilCall, P, err, nodes_left,
                                   b, ptype, out, arcs, pred, head, tail, sinks,
                                   source, sort_count, sinks_per_source,
                                   chain_length, supply_per_sink, k, it,
                                   limit, upper_bound>>

\* _create_problem, lines 200 and 291-293: the next source, or the loop over
\* the transshipment sinks
NextSource ==
    /\ pc = "skel_group"
    /\ i > sort_count
    /\ IF source < sources
       THEN /\ source' = source + 1
            /\ pc' = "collect"
            /\ UNCHANGED i
       ELSE /\ i' = (nodes - sinks_n) + 1
            /\ pc' = "tsinks"
            /\ UNCHANGED source
    /\ UNCHANGED <<rngVars, ilVars, objVars, pred, head, tail, sinks,
                   sort_count, sinks_per_source, chain_length,
                   supply_per_sink, k, it, phVars>>

non_sources    == (nodes - sources) + tsources

\* one arc less than the density leaves room for
RemainingArcsLessOne == (density - arc_count) - 1

remaining_arcs == density - arc_count

\* x / y >= z for the float quotient of integers x and y # 0
QuotientAtLeast(x, y, z) == IF y > 0 THEN x >= z * y ELSE x <= z * y

\* int(x / y) for integers x and y # 0
IntQuotient(x, y) ==
    IF y > 0 THEN TruncDiv(x, y) ELSE TruncDiv(-x, -y)

\* where _pick_head goes with this limit: into the loop of line 386, or back
AfterLimit(lim) == IF lim > 0 THEN "ph_arcs" ELSE ph_ret

\* _pick_head, lines 367-378: the number of arcs to give to desired_tail.
\* upper_bound is kept as int(upper_bound), which is all generate reads.
PickHead ==
    /\ pc = "pick_head"
    /\ LET nl == nodes_left - 1
       IN  IF 2 * nl < remaining_arcs /\ nl + 1 = 0
           THEN Raise("ZeroDivisionError", 374)
           ELSE /\ nodes_left' = nl
                /\ IF 2 * nl >= remaining_arcs
                   THEN /\ pc' = ph_ret
                        /\ UNCHANGED <<limit, upper_bound>>
                   ELSE IF QuotientAtLeast(((remaining_arcs + non_sources)
                                               - PseudoSize(IndList)) - 1,
                                           nl + 1, non_sources - 1)
                   THEN /\ limit' = non_sources
                        /\ pc' = AfterLimit(non_sources)
                        /\ UNCHANGED upper_bound
                   ELSE /\ upper_bound' =
                              IntQuotient((2 * remaining_arcs)
                                             - (2 * (nl + 1)), nl + 1)
                        /\ pc' = "ph_limit"
                        /\ UNCHANGED limit
                /\ UNCHANGED <<rngVars, ilVars, P, err, arc_count, b, ptype,
                               arc_from, arc_to, arc_c, arc_u, out, arcs, pred,
                               head, tail, sinks, i, source, sort_count,
                               sinks_per_source, chain_length,
                               supply_per_sink, k, it, desired_tail, ph_ret>>

\* A test that leaves the limit out of the comparison.
LimitBreaksWithoutLimit(lim) ==
    nodes_left * (non_sources - 1) >= remaining_arcs

\* _pick_head, line 383: the test that ends the loop with the limit lim
LimitBreaks(lim) ==
    nodes_left * (non_sources - 1) >= remaining_arcs - lim

\* _pick_head, lines 379-384: one pass of the loop that draws the limit
PickLimit ==
    /\ pc = "ph_limit"
    /\ IF BadBounds(1, upper_bound)
       THEN Raise("ValueError", 380)
       ELSE \E d \in Generate(P.rng, previous, 1, upper_bound) :
              LET lim == IF nodes_left = 0 THEN remaining_arcs ELSE d.r
              IN  /\ previous' = d.p
                  /\ IF LimitBreaks(lim)
                     THEN /\ limit' = lim
                          /\ pc' = AfterLimit(lim)
                     ELSE UNCHANGED <<limit, pc>>
                  /\ UNCHANGED <<seed, rngCall, proc, ilVars, objVars, pred, head,
                                 tail, sinks, i, source, sort_count,
                                 sinks_per_source, chain_length,
                                 supply_per_sink, k, it, upper_bound,
                                 desired_tail, ph_ret>>

\* _pick_head, lines 386-399: one pass of the loop: a head is popped for
\* desired_tail and, when it is a node, the arc is recorded
PickArc ==
    /\ pc = "ph_arcs"
    /\ limit > 0
    /\ \E d1 \in GenerateThen(P.rng, previous, 1, PseudoSize(IndList)) :
         LET res   == Pop(IndList, d1.r)
             index == res.r
             valid == 1 <= index /\ index <= nodes
         IN
         \E d2 \in Percent(P.rng, d1.p, capacitated, TRUE, valid) :
           IF d2.le /\ BadBounds(mincap, maxcap)
           THEN Raise("ValueError", 391)
           ELSE
           \E d3 \in IF d2.le
                     THEN GenerateIf(P.rng, d2.p, mincap, maxcap, valid)
                     ELSE {[r |-> supply, p |-> d2.p]} :
             IF ~valid
             THEN /\ previous' = d3.p
                  /\ IndList' = res.l
                  /\ limit' = limit - 1
                  /\ pc' = AfterLimit(limit - 1)
                  /\ UNCHANGED <<seed, rngCall, proc, ilCall, objVars, pred, head,
                                 tail, sinks, i, source, sort_count,
                                 sinks_per_source, chain_length,
                                 supply_per_sink, k, it, upper_bound,
                                 desired_tail, ph_ret>>
             ELSE IF ~InRange(arc_from, arc_count)
             THEN Raise("IndexError", 394)
             ELSE IF BadBounds(mincost, maxcost)
             THEN Raise("ValueError", 396)
             ELSE
             \E d4 \in Generate(P.rng, d3.p, mincost, maxcost) :
                  /\ previous' = d4.p
                  /\ IndList' = res.l
                  /\ limit' = limit - 1
                  /\ arc_from' = [arc_from EXCEPT ![arc_count] = desired_tail]
                  /\ arc_to' = [arc_to EXCEPT ![arc_count] = index]
                  /\ arc_c' = [arc_c EXCEPT ![arc_count] = d4.r]
                  /\ arc_u' = [arc_u EXCEPT ![arc_count] = d3.r]
                  /\ arc_count' = arc_count + 1
                  /\ pc' = AfterLimit(limit - 1)
                  /\ UNCHANGED <<seed, rngCall, proc, ilCall, P, err, nodes_left,
                                 b, ptype, out, arcs, pred, head, tail, sinks, i,
                                 source, sort_count, sinks_per_source,
                                 chain_length, supply_per_sink, k, it,
                                 upper_bound, desired_tail, ph_ret>>

\* _create_problem, lines 292-296: one pass of the loop over the
\* transshipment sinks: _pick_head for node i
TransSink ==
    /\ pc = "tsinks"
    /\ i < (nodes - sinks_n) + tsinks
    /\ IF IndexListBad((sources - tsources) + 1, nodes)
       THEN Raise("ValueError", 294)
       ELSE /\ IndList' = Remove(IndexList((sources - tsources) + 1, nodes), i)
            /\ desired_tail' = i
            /\ ph_ret' = "tsinks"
            /\ i' = i + 1
            /\ pc' = "pick_head"
            /\ UNCHANGED <<rngVars, ilCall, objVars, pred, head, tail, sinks,
                           source, sort_count, sinks_per_source, chain_length,
                           supply_per_sink, k, it, limit, upper_bound>>

\* _create_problem, line 299: the constructor returns and the locals are gone
Finish ==
    /\ pc = "tsinks"
    /\ i >= (nodes - sinks_n) + tsinks
    /\ pc' = "done"
    /\ IndList' = EmptyIndexList
    /\ pred' = <<>> /\ head' = <<>> /\ tail' = <<>> /\ sinks' = <<>>
    /\ i' = 0 /\ source' = 0 /\ sort_count' = 0 /\ sinks_per_source' = 0
    /\ chain_length' = 0 /\ supply_per_sink' = 0 /\ k' = 0 /\ it' = 0
    /\ limit' = 0 /\ upper_bound' = 0 /\ desired_tail' = 0 /\ ph_ret' = "none"
    /\ UNCHANGED <<rngVars, ilCall, objVars>>

-----------------------------------------------------------------------------
(* netgen.py: write *)

\* write, lines 434-464: the problem line, the node lines and the arc lines
RECURSIVE NodeLines(_, _)
NodeLines(t, n) ==
    IF n = 0 THEN <<>>
    ELSE LET x    == n - 1
             rest == NodeLines(t, n - 1)
         IN  IF t = 2
             THEN IF b[x] > 0 THEN Append(rest, <<"n", x + 1>>) ELSE rest
             ELSE IF t = 1
             THEN IF b[x] > 0 THEN Append(rest, <<"n", x + 1, "s">>)
                  ELSE IF b[x] < 0 THEN Append(rest, <<"n", x + 1, "t">>)
                  ELSE rest
             ELSE IF b[x] # 0 THEN Append(rest, <<"n", x + 1, b[x]>>)
                  ELSE rest

ArcLine(t, x) ==
    IF t = 2 THEN <<"a", arc_from[x], arc_to[x], arc_c[x]>>
    ELSE IF t = 1 THEN <<"a", arc_from[x], arc_to[x], arc_u[x]>>
    ELSE <<"a", arc_from[x], arc_to[x], 0, arc_u[x], arc_c[x]>>

ProblemWord(t) == IF t = 2 THEN "asn" ELSE IF t = 1 THEN "max" ELSE "min"

Write ==
    /\ pc = "done"
    /\ out' = [p |-> <<"p", ProblemWord(ptype), nodes, arc_count>>,
               n |-> NodeLines(ptype, nodes),
               a |-> [x \in 1..arc_count |-> ArcLine(ptype, x - 1)]]
    /\ pc' = "written"
    /\ UNCHANGED <<rngVars, ilVars, P, err, arc_count, nodes_left, b, ptype,
                   arc_from, arc_to, arc_c, arc_u, arcs, locVars>>

-----------------------------------------------------------------------------
(* Spec: one generator object *)

\* The constructor calls that are tried.  Record(...) is one call.
Record(sd, nd, sr, sk, dn, c1, c2, sp, ts, tk, hc, ca, u1, u2, rg, ty) ==
    [seed |-> sd, nodes |-> nd, sources |-> sr, sinks |-> sk, density |-> dn,
     mincost |-> c1, maxcost |-> c2, supply |-> sp, tsources |-> ts,
     tsinks |-> tk, hicost |-> hc, capacitated |-> ca, mincap |-> u1,
     maxcap |-> u2, rng |-> rg, type |-> ty]

\* <<hicost, capacitated>> of the NETGEN calls
PercentPairs == {<<50, 50>>, <<100, 0>>}

\* Shape(n, S, Q): Q(nodes, sources, sinks, tsources, tsinks, density, supply)
\* for some node counts up to n nodes, density and supply of S that __init__
\* accepts
Shape(n, S, Q(_, _, _, _, _, _, _)) ==
    \E nd \in 0..n : \E sr \in 0..nd : \E sk \in 0..(nd - sr) :
    \E ts \in 0..sr : \E tk \in 0..sk :
    \E dn \in Max(1, nd)..(nd + MaxExtraArcs) : \E sp \in S :
        Q(nd, sr, sk, ts, tk, dn, sp)

\* rng=0, type=None: the NETGEN generator, which is a function of the seed
NetgenCalls ==
    \E sd \in 1..MaxSeed : \E pp \in PercentPairs :
        LET Q(nd, sr, sk, ts, tk, dn, sp) ==
                BeforeInit(Record(sd, nd, sr, sk, dn, 1, 2, sp, ts, tk,
                                  pp[1], pp[2], 1, 2, 0, None))
        IN  Shape(MaxNodes, 0..MaxSupply, Q)

\* rng=1, type=None: the standard generator, any draw of which may come out
\* as any number of its range; one cost and one capacity, so that the runs
\* differ in the network only, and no supply or the largest
StandardCalls ==
    LET Q(nd, sr, sk, ts, tk, dn, sp) ==
            BeforeInit(Record(1, nd, sr, sk, dn, 1, 1, sp, ts, tk,
                              0, 100, 1, 1, 1, None))
    IN  Shape(MaxStandardNodes, {0, MaxSupply}, Q)

\* a type override
OverrideCalls ==
    \E ty \in {0, 1, 2} :
        LET Q(nd, sr, sk, ts, tk, dn, sp) ==
                BeforeInit(Record(1, nd, sr, sk, dn, 1, 2, sp, ts, tk,
                                  0, 100, 1, 2, 0, ty))
        IN  Shape(MaxNodes, 0..MaxSupply, Q)

\* calls that __init__ rejects, one for each raise of lines 71-123
RejectedCalls ==
    \E p \in
        { Record(1, -1, 0, 0, 1, 1, 1, 1, 0, 0, 0, 100, 1, 1, 0, None),
          Record(1, 1, -1, 0, 1, 1, 1, 1, 0, 0, 0, 100, 1, 1, 0, None),
          Record(1, 1, 0, -1, 1, 1, 1, 1, 0, 0, 0, 100, 1, 1, 0, None),
          Record(1, 2, 2, 1, 2, 1, 1, 1, 0, 0, 0, 100, 1, 1, 0, None),
          Record(1, 0, 0, 0, 0, 1, 1, 1, 0, 0, 0, 100, 1, 1, 0, None),
          Record(1, 3, 1, 1, 2, 1, 1, 1, 0, 0, 0, 100, 1, 1, 0, None),
          Record(1, 3, 1, 1, 3, 2, 1, 1, 0, 0, 0, 100, 1, 1, 0, None),
          Record(1, 3, 1, 1, 3, 1, 1, 1, -1, 0, 0, 100, 1, 1, 0, None),
          Record(1, 3, 1, 1, 3, 1, 1, 1, 2, 0, 0, 100, 1, 1, 0, None),
          Record(1, 3, 1, 1, 3, 1, 1, 1, 0, -1, 0, 100, 1, 1, 0, None),
          Record(1, 3, 1, 1, 3, 1, 1, 1, 0, 2, 0, 100, 1, 1, 0, None),
          Record(1, 3, 1, 1, 3, 1, 1, 1, 0, 0, 101, 100, 1, 1, 0, None),
          Record(1, 3, 1, 1, 3, 1, 1, 1, 0, 0, 0, 101, 1, 1, 0, None),
          Record(1, 3, 1, 1, 3, 1, 1, 1, 0, 0, 0, 100, 2, 1, 0, None),
          Record(1, 3, 1, 1, 3, 1, 1, 1, 0, 0, 0, 100, 1, 1, 0, 3),
          Record(1, 3, 1, 1, 3, 1, 1, 1, 0, 0, 0, 100, 1, 1, 2, None) } :
        BeforeInit(p)

\* the documented calls: the default parameters of __init__ (lines 21-24),
\* the same with mincost = maxcost = 1, and a transportation problem of
\* three sources and three sinks
ExampleCalls ==
    \E p \in
        { Record(1, 10, 3, 3, 30, 10, 99, 1000, 0, 0, 0, 100, 100, 1000, 0,
                 None),
          Record(1, 10, 3, 3, 30, 1, 1, 1000, 0, 0, 0, 100, 100, 1000, 0,
                 None),
          Record(1, 6, 3, 3, 30, 10, 99, 3, 0, 0, 0, 100, 100, 1000, 0,
                 None) } :
        BeforeInit(p)

\* more supply than maxcap: two sources and two sinks around one
\* transshipment node, every arc capacitated, capacities of mincap = maxcap
\* = 1
LargeSupplyCalls ==
    \E sd \in 1..MaxSeed : \E dn \in 5..(5 + MaxExtraArcs) :
    \E sp \in (MaxSupply + 1)..(MaxSupply + 2) :
        BeforeInit(Record(sd, 5, 2, 2, dn, 1, 2, sp, 0, 0, 50, 100, 1, 1, 0,
                          None))

\* one transshipment node and one sink after four or more sources: the
\* second loop of the chains (lines 187-192) runs sources-1 times
ManySourcesCalls ==
    \E sd \in 1..MaxSeed : \E sr \in 4..(MaxNodes - 1) :
    \E dn \in (sr + 2)..(sr + 2 + MaxExtraArcs) :
        BeforeInit(Record(sd, sr + 2, sr, 1, dn, 1, 2, sr, 0, 0, 50, 50, 1,
                          2, 0, None))

\* dense networks of four and of five nodes with one transshipment source:
\* the loop of lines 379-384 then has limits that its test rejects (one
\* such limit with four nodes, two with five); either generator, and the
\* type override of an assignment problem
DenseArcs == 11

DenseCalls ==
    \E rg \in {0, 1} : \E ty \in {None, 2} :
    \E sh \in { <<4, 2, dn>> : dn \in (DenseArcs - 1)..DenseArcs }
                \cup { <<5, 3, DenseArcs + 4>> } :
        BeforeInit(Record(1, sh[1], 1, sh[2], sh[3], 1, 1, MaxSupply, 1, 2,
                          0, 100, 1, 1, rg, ty))

NoCall == [op |-> "none"]

Init ==
    /\ \/ NetgenCalls
       \/ StandardCalls
       \/ OverrideCalls
       \/ RejectedCalls
       \/ ExampleCalls
       \/ LargeSupplyCalls
       \/ ManySourcesCalls
    /\ rngCall = NoCall
    /\ ilCall = NoCall
    /\ proc = NoCall

Next ==
    \/ Construct
    \/ CreateAssignment
    \/ CreateProblem
    \/ CreateSupplyStep
    \/ ChainStart
    \/ PhaseA
    \/ PhaseB
    \/ CollectChain
    \/ SelectSink
    \/ Backfill
    \/ Distribute
    \/ FinishLinks
    \/ SkeletonGroup
    \/ SkeletonArc
    \/ NextSource
    \/ PickHead
    \/ PickLimit
    \/ PickArc
    \/ TransSink
    \/ Finish
    \/ Write

Spec == Init /\ [][Next]_vars

\* The limit loop of _pick_head (lines 379-384) leaves on a draw that meets
\* the test of line 383.
PickLimitExit == PickLimit /\ pc' # "ph_limit"

\* The calls of the standard generator, the rejected ones and the dense
\* networks, when the interpreter keeps running the
\* constructor and write(), and the draws of StandardRandom (random.randint,
\* uniform on 1..upper_bound) do not avoid for ever a value that is always
\* possible. NetgenRandom's draws are the deterministic ones of
\* NetgenGenerate.
InitLive ==
    /\ \/ StandardCalls
       \/ RejectedCalls
       \/ DenseCalls
    /\ rngCall = NoCall
    /\ ilCall = NoCall
    /\ proc = NoCall

SpecLive == InitLive /\ [][Next]_vars /\ WF_vars(Next) /\ SF_vars(PickLimitExit)

-----------------------------------------------------------------------------
(* SpecIL: one IndexList object *)

\* bounds of the lists and of the number of calls made on one list
MaxLen == 3
MaxCalls == 4

\* the number of argument-less pop() calls of the demonstration
DemoPops == 20

\* the generator object does not exist in SpecIL and SpecRng
NoGenerator(where) ==
    /\ P = <<>>
    /\ pc = where
    /\ NoObject

\* the object IndexList(a, bb) (or IndexList() when empty) and no call yet;
\* script is "any" or "demo"
NewIndexList(L, script) ==
    /\ IndList = L
    /\ ilCall = [op |-> "new", arg |-> 0, ret |-> 0, before |-> L,
                 size0 |-> Length(L), calls |-> 0, hits |-> 0,
                 script |-> script, list0 |-> L.items]

\* L.pop(index) / L.choose_index(index); hits counts the calls whose index
\* is a position of the list
ILPop(index) ==
    LET res == Pop(IndList, index)
    IN  /\ IndList' = res.l
        /\ ilCall' = [ilCall EXCEPT
                         !.op = "pop", !.arg = index, !.ret = res.r,
                         !.before = IndList, !.calls = @ + 1,
                         !.hits = IF 1 <= index /\ index <= Length(IndList)
                                  THEN @ + 1 ELSE @]
        /\ UNCHANGED <<rngVars, genVars>>

\* L.remove(v) / L.remove_index(v), which returns None
ILRemove(v) ==
    /\ IndList' = Remove(IndList, v)
    /\ ilCall' = [ilCall EXCEPT
                     !.op = "remove", !.arg = v, !.ret = None,
                     !.before = IndList, !.calls = @ + 1, !.hits = @ + 1]
    /\ UNCHANGED <<rngVars, genVars>>

\* any call on a list
AnyPop ==
    /\ ilCall.script = "any"
    /\ ilCall.calls < MaxCalls
    /\ \E index \in {PopDefaultIndex} \cup (0..(MaxLen + 1)) : ILPop(index)

AnyRemove ==
    /\ ilCall.script = "any"
    /\ ilCall.calls < MaxCalls
    /\ \E v \in 0..(MaxLen + 2) : ILRemove(v)

\* the demonstration: choose_index(2) on IndexList(1, 8), then pop() in a
\* loop of DemoPops passes
DemoChoose ==
    /\ ilCall.script = "demo"
    /\ ilCall.calls = 0
    /\ ILPop(2)

DemoPop ==
    /\ ilCall.script = "demo"
    /\ 1 <= ilCall.calls /\ ilCall.calls <= DemoPops
    /\ ILPop(PopDefaultIndex)

InitIL ==
    /\ seed = 0 /\ previous = 0
    /\ rngCall = NoCall
    /\ proc = NoCall
    /\ NoGenerator("ilist")
    /\ \/ NewIndexList(EmptyIndexList, "any")
       \/ \E a \in 0..2 : \E bb \in a..(a + MaxLen - 1) :
             NewIndexList(IndexList(a, bb), "any")
       \/ NewIndexList(IndexList(1, 8), "demo")

NextIL ==
    \/ AnyPop
    \/ AnyRemove
    \/ DemoChoose
    \/ DemoPop

SpecIL == InitIL /\ [][NextIL]_vars

-----------------------------------------------------------------------------
(* SpecRng: one NetgenRandom object *)

\* bounds of the arguments of generate and of the number of calls
MaxBound == 3
MaxDraws == 3

\* a reset that leaves self.previous where the generate calls have brought
\* it
ResetPreviousKept(sd, prev) == prev

\* reset(), line 67: self.previous = self.seed
ResetPrevious(sd, prev) == sd

\* Rng.generate(a, b): ValueError for a negative bound, before the state is
\* touched.  rngCall.since counts the generate calls made since the object
\* was constructed or last reset, rngCall.via tells which of the two it was,
\* rngCall.drawn counts the generate calls that have returned a value, and
\* rngCall.fresh is self.previous of an object that was constructed with the
\* seed of this one and has got the generate calls made since.
RngGenerate ==
    /\ rngCall.calls < MaxDraws
    /\ \E a \in -1..MaxBound : \E bb \in -1..MaxBound :
         IF BadBounds(a, bb)
         THEN /\ rngCall' = [rngCall EXCEPT
                                !.op = "ValueError", !.a = a, !.b = bb,
                                !.ret = None, !.before = previous,
                                !.calls = @ + 1, !.since = @ + 1]
              /\ UNCHANGED <<seed, previous>>
         ELSE LET d == NetgenGenerate(previous, a, bb)
              IN  /\ previous' = d.p
                  /\ rngCall' = [rngCall EXCEPT
                                    !.op = "generate", !.a = a, !.b = bb,
                                    !.ret = d.r, !.before = previous,
                                    !.calls = @ + 1, !.drawn = @ + 1,
                                    !.since = @ + 1,
                                    !.fresh = NextPrevious(@)]
                  /\ UNCHANGED seed
    /\ UNCHANGED <<proc, ilVars, genVars>>

\* Rng.reset(), lines 64-68
RngReset ==
    /\ rngCall.calls < MaxDraws
    /\ previous' = ResetPrevious(seed, previous)
    /\ rngCall' = [rngCall EXCEPT !.op = "reset", !.a = 0, !.b = 0,
                                  !.ret = None, !.before = previous,
                                  !.calls = @ + 1, !.since = 0,
                                  !.via = "reset", !.fresh = seed]
    /\ UNCHANGED <<seed, proc, ilVars, genVars>>

\* Rng.set_seed(s), lines 46-60; a seed <= 0 stands for any seed the
\* standard library may pick
RngSetSeed ==
    /\ rngCall.calls < MaxDraws
    /\ \E s \in 0..MaxSeed : \E picked \in 1..MaxSeed :
         LET sd == IF s <= 0 THEN picked ELSE s
         IN  /\ seed' = sd
             /\ previous' = ResetPrevious(sd, previous)
             /\ rngCall' = [rngCall EXCEPT !.op = "set_seed", !.a = s,
                                           !.b = 0, !.ret = None,
                                           !.before = previous,
                                           !.calls = @ + 1, !.since = 0,
                                           !.via = "set_seed", !.fresh = sd]
    /\ UNCHANGED <<proc, ilVars, genVars>>

\* seeds at the ends of 1..2^31-2 and of the 16-bit halves, the seed
\* 127773 = (2^31-1) div 16807, and the seeds that generate takes to 2^31-2
\* and to 1
EdgeSeeds == {65535, 65536, 127773, 739806647, 1407677000, 2147483646}

\* NetgenRandom(seed), lines 28-41
InitRng ==
    /\ \E s \in (1..MaxSeed) \cup EdgeSeeds :
         /\ seed = s /\ previous = s
         /\ rngCall = [op |-> "new", a |-> 0, b |-> 0, ret |-> None,
                       before |-> 0, calls |-> 0, since |-> 0, drawn |-> 0,
                       via |-> "new", fresh |-> s]
    /\ IndList = EmptyIndexList
    /\ ilCall = NoCall
    /\ proc = NoCall
    /\ NoGenerator("rng")

NextRng ==
    \/ RngGenerate
    \/ RngReset
    \/ RngSetSeed

SpecRng == InitRng /\ [][NextRng]_vars

-----------------------------------------------------------------------------
(* SpecProc: two generator objects in one process, and the random module   *)
(* of the standard library that set_seed, reset and                        *)
(* StandardRandom.generate call                                            *)

\* The generator of the random module (a Mersenne Twister) after
\* random.seed(s): the leading eight bits of its successive 32-bit words.
TwisterBits(s) ==
    CASE s = 1 -> <<34, 145, 216, 205, 195, 16, 65, 30, 126, 194, 115, 120,
                    166, 97, 201, 53, 24, 124, 7, 228, 213, 99, 110, 155>>
      [] s = 2 -> <<244, 220, 242, 217, 14, 23, 21, 92, 213, 43, 188, 207,
                    171, 218, 78, 64, 155, 54, 155, 9, 148, 174, 40, 255>>
      [] s = 3 -> <<60, 151, 139, 33, 94, 234, 154, 121, 160, 148, 16, 155,
                    3, 232, 214, 120, 66, 141, 59, 49, 254, 183, 120, 138>>
      [] s = 4 -> <<60, 77, 26, 184, 101, 122, 39, 23, 17, 5, 102, 140,
                    234, 74, 204, 253, 195, 15, 56, 133, 137, 92, 70, 199>>

\* the state of the random module: the seed it was last given and the
\* number of words drawn since
Seeded(s) == [seed |-> s, idx |-> 0]

\* n.bit_length() for n >= 0
RECURSIVE BitLength(_)
BitLength(n) == IF n = 0 THEN 0 ELSE 1 + BitLength(n \div 2)

\* random.getrandbits(kbits) until the number is below n, for 1 <= kbits
\* <= 8: [r |-> the number, m |-> the state afterwards]; r is None when the
\* words of TwisterBits do not suffice
RECURSIVE RandBelow(_, _, _)
RandBelow(m, n, kbits) ==
    IF m.idx >= Len(TwisterBits(m.seed))
    THEN [r |-> None, m |-> m]
    ELSE LET r    == TwisterBits(m.seed)[m.idx + 1] \div (2 ^ (8 - kbits))
             next == [m EXCEPT !.idx = @ + 1]
         IN  IF r < n THEN [r |-> r, m |-> next]
             ELSE RandBelow(next, n, kbits)

\* random.randint(lo, hi) for lo <= hi
Randint(m, lo, hi) ==
    LET d == RandBelow(m, (hi - lo) + 1, BitLength((hi - lo) + 1))
    IN  [r |-> IF d.r = None THEN None ELSE lo + d.r, m |-> d.m]

\* a generator object: kind 0 is a NetgenRandom, kind 1 a StandardRandom,
\* kind None no object yet
NoRng == [kind |-> None, seed |-> 0, previous |-> 0]

\* reset(), lines 64-68, of either class: [o |-> the object, m |-> the
\* random module] afterwards
ObjReset(o, m) ==
    [o |-> [o EXCEPT !.previous = o.seed], m |-> Seeded(o.seed)]

\* set_seed(s), lines 46-60; picked is the seed that the random module
\* chooses for s <= 0
ObjSetSeed(o, m, s, picked) ==
    ObjReset([o EXCEPT !.seed = IF s <= 0 THEN picked ELSE s], m)

\* a generate without its test of the bounds, which then returns a negative
\* b as b <= a
ObjGenerateUnchecked(o, m, a, bb) ==
    IF o.kind = 0
    THEN LET d == NetgenGenerate(o.previous, a, bb)
         IN  [op |-> "generate", r |-> d.r,
              o |-> [o EXCEPT !.previous = d.p], m |-> m]
    ELSE [op |-> "generate", r |-> bb,
          o |-> [o EXCEPT !.previous = bb], m |-> m]

\* generate(a, b) of the class of o: NetgenRandom.generate, lines 146-169,
\* steps self.previous, StandardRandom.generate, lines 92-105, draws from
\* the random module; r is None and op is "ValueError" when the call raises
ObjGenerate(o, m, a, bb) ==
    IF BadBounds(a, bb)
    THEN [op |-> "ValueError", r |-> None, o |-> o, m |-> m]
    ELSE IF o.kind = 0
    THEN LET d == NetgenGenerate(o.previous, a, bb)
         IN  [op |-> "generate", r |-> d.r,
              o |-> [o EXCEPT !.previous = d.p], m |-> m]
    ELSE LET d == Randint(m, Min(a, bb), Max(a, bb))
         IN  [op |-> "generate", r |-> IF bb <= a THEN bb ELSE d.r,
              o |-> [o EXCEPT !.previous = d.r], m |-> d.m]

\* the arguments of the generate calls: both orders of a range, and a
\* negative bound on either side
ProcBounds == {<<0, MaxBound>>, <<MaxBound, 0>>, <<-1, MaxBound>>, <<0, -1>>}

\* the calls on the objects of the process.  proc.objs[w] is object w,
\* proc.mt the random module; proc.solo is object 1 and the random module
\* as they would be had object 1 been the only object of the process;
\* proc.last is the call made last: on object who, with the value it
\* returned (ret), the value it would have returned to object 1 alone
\* (alone), and the objects and the module before the call
ProcStep(w, op, a, bb, res, sres) ==
    proc' = [objs  |-> [proc.objs EXCEPT ![w] = res.o],
             mt    |-> res.m,
             solo  |-> IF w = 1 THEN [o |-> sres.o, m |-> sres.m]
                       ELSE proc.solo,
             last  |-> [who |-> w, op |-> op, a |-> a, b |-> bb,
                        ret |-> res.r,
                        alone |-> IF w = 1 THEN sres.r ELSE None,
                        before |-> [objs |-> proc.objs, mt |-> proc.mt]],
             calls |-> proc.calls + 1]

ProcIdle == UNCHANGED <<seed, previous, rngCall, ilVars, genVars>>

\* the constructor of the second object: set_seed(seed), lines 28-42
ProcConstruct ==
    /\ proc.calls < MaxDraws
    /\ proc.objs[2].kind = None
    /\ \E kind \in {0, 1} : \E s \in 1..MaxSeed :
         LET o   == [kind |-> kind, seed |-> s, previous |-> s]
             res == ObjSetSeed(o, proc.mt, s, s)
         IN  ProcStep(2, "new", s, 0, [o |-> res.o, m |-> res.m, r |-> None],
                      proc.solo)
    /\ ProcIdle

\* generate(a, b) on one of the objects
ProcGenerate ==
    /\ proc.calls < MaxDraws
    /\ \E w \in {1, 2} : \E ab \in ProcBounds :
         LET res  == ObjGenerate(proc.objs[w], proc.mt, ab[1], ab[2])
             sres == ObjGenerate(proc.solo.o, proc.solo.m, ab[1], ab[2])
         IN  /\ proc.objs[w].kind # None
             /\ res.op = "generate" => res.r # None
             /\ (w = 1 /\ sres.op = "generate") => sres.r # None
             /\ ProcStep(w, res.op, ab[1], ab[2], res, sres)
    /\ ProcIdle

\* reset() on one of the objects
ProcReset ==
    /\ proc.calls < MaxDraws
    /\ \E w \in {1, 2} :
         LET res  == ObjReset(proc.objs[w], proc.mt)
             sres == ObjReset(proc.solo.o, proc.solo.m)
         IN  /\ proc.objs[w].kind # None
             /\ ProcStep(w, "reset", 0, 0,
                         [o |-> res.o, m |-> res.m, r |-> None],
                         [o |-> sres.o, m |-> sres.m, r |-> None])
    /\ ProcIdle

\* set_seed(s) on one of the objects, with the seed given or with a seed
\* that the random module picks
ProcSetSeed ==
    /\ proc.calls < MaxDraws
    /\ \E w \in {1, 2} : \E s \in {0, MaxSeed} : \E picked \in 1..MaxSeed :
         LET res  == ObjSetSeed(proc.objs[w], proc.mt, s, picked)
             sres == ObjSetSeed(proc.solo.o, proc.solo.m, s, picked)
         IN  /\ proc.objs[w].kind # None
             /\ ProcStep(w, "set_seed", s, 0,
                         [o |-> res.o, m |-> res.m, r |-> None],
                         [o |-> sres.o, m |-> sres.m, r |-> None])
    /\ ProcIdle

\* the first object has been constructed, the second has not
InitProc ==
    /\ seed = 0 /\ previous = 0
    /\ rngCall = NoCall
    /\ IndList = EmptyIndexList
    /\ ilCall = NoCall
    /\ NoGenerator("proc")
    /\ \E kind \in {0, 1} : \E s \in 1..MaxSeed :
         LET o == [kind |-> kind, seed |-> s, previous |-> s]
         IN  proc = [objs  |-> <<o, NoRng>>,
                     mt    |-> Seeded(s),
                     solo  |-> [o |-> o, m |-> Seeded(s)],
                     last  |-> [who |-> 1, op |-> "new", a |-> s, b |-> 0,
                                ret |-> None, alone |-> None,
                                before |-> [objs |-> <<NoRng, NoRng>>,
                                            mt |-> Seeded(s)]],
                     calls |-> 0]

NextProc ==
    \/ ProcConstruct
    \/ ProcGenerate
    \/ ProcReset
    \/ ProcSetSeed

SpecProc == InitProc /\ [][NextProc]_vars

\* C16: after reset() self.previous is the seed s, and the generate calls
\* that follow leave the object as they leave a NetgenRandom(s) just
\* constructed, and return what they return to it; only generate, reset and
\* set_seed change self.previous.
C16_ResetRestartsStream ==
    /\ rngCall.op = "reset" => previous = seed
    /\ previous = rngCall.fresh
    /\ rngCall.op = "generate" =>
          rngCall.ret = IF rngCall.b <= rngCall.a
                        THEN rngCall.b
                        ELSE rngCall.a + (rngCall.fresh
                                           % ((rngCall.b - rngCall.a) + 1))
    /\ (rngCall.op # "new" /\ previous # rngCall.before) =>
          rngCall.op \in {"generate", "reset", "set_seed"}

\* C16 happens: a generate call, a reset, and a generate call again
C16_Witness ==
    /\ rngCall.op = "generate"
    /\ rngCall.via = "reset"
    /\ rngCall.drawn = 2
    /\ rngCall.since = 1
    /\ rngCall.b > rngCall.a
    /\ rngCall.before = seed

-----------------------------------------------------------------------------
(* SpecGrid: one GridNetworkGenerator object (src/src/pynetgen/gen/grid.py), *)
(* from its constructor call through _create_problem to write()             *)

MaxRows == 2
MaxColumns == 2

rows     == P.rows
columns  == P.columns
skeleton == P.skeleton
\* bool(int(diagonal)), bool(int(reverse)), bool(int(wrap)), lines 79-81
diagonal == P.diagonal # 0
reverse  == P.reverse # 0
wrap     == P.wrap # 0

\* self._node_count = rows*columns + 2, line 123
node_count == (rows * columns) + 2

\* _coord_id, line 301
coord_id(r, c) == (r * columns) + c + 2

\* __init__, lines 69-117: the line of the first raise, 0 when none is reached
GridValidationError(p) ==
    IF p.rows < 1 THEN 72
    ELSE IF p.columns < 1 THEN 75
    ELSE IF p.skeleton < 0 \/ p.skeleton > p.rows THEN 78
    ELSE IF p.mincost > p.maxcost THEN 85
    ELSE IF p.hicost < 0 \/ p.hicost > 100 THEN 89
    ELSE IF p.capacitated < 0 \/ p.capacitated > 100 THEN 92
    ELSE IF p.mincap > p.maxcap THEN 96
    ELSE IF p.type # None /\ (p.type < 0 \/ p.type > 1) THEN 101
    ELSE IF p.rng # 0 /\ p.rng # 1 THEN 109
    ELSE 0

\* __init__, lines 69-137: validation, the Rng object, self._type = 0,
\* self._arc_count = 0 and the empty deque; a type override reads
\* self.sources, which no GridNetworkGenerator has (line 130)
GridInit ==
    /\ pc = "grid_new"
    /\ IF GridValidationError(P) # 0
       THEN Raise("ValueError", GridValidationError(P))
       ELSE IF P.type # None
       THEN Raise("AttributeError", 130)
       ELSE /\ seed' = P.seed
            /\ previous' = P.seed
            /\ ptype' = 0
            /\ arc_count' = 0
            /\ arcs' = <<>>
            /\ pc' = "grid_source"
            /\ UNCHANGED <<rngCall, proc, ilVars, P, err, nodes_left, b,
                           arc_from, arc_to, arc_c, arc_u, out, locVars>>

\* _create_problem, lines 145-147: math.ceil(self.supply/self.skeleton)
skeleton_cap ==
    IF skeleton > 1 THEN -((-P.supply) \div skeleton) ELSE P.supply

\* line 151: the head of the master source arc of row r
MasterSourceHead(r) == r + 2

\* _make_arc, line 286, for every arc of a loop that draws nothing
gridVarsKept == <<rngVars, ilVars, P, err, arc_count, nodes_left, b, ptype,
                  arc_from, arc_to, arc_c, arc_u, out, locVars>>

\* lines 150-151
MasterSourceArcs ==
    /\ pc = "grid_source"
    /\ arcs' = arcs \o [r \in 1..rows |->
                          <<1, MasterSourceHead(r - 1), 0, P.supply>>]
    /\ pc' = "grid_we"
    /\ UNCHANGED gridVarsKept

\* The arcs of one loop nest in the order the loops make them, each
\* <<tail, head, whether the row is a skeleton row>>.
\* lines 154-171: for i in range(rows): for j in range(columns-1)
WestEastArcs ==
    [n \in 1..(rows * (columns - 1)) |->
        LET r == (n - 1) \div (columns - 1)
            c == (n - 1) % (columns - 1)
        IN  <<coord_id(r, c), coord_id(r, c + 1), r < skeleton>>]

\* lines 175-180
EastWestArcs ==
    [n \in 1..(rows * (columns - 1)) |->
        LET r == (n - 1) \div (columns - 1)
            c == (n - 1) % (columns - 1)
        IN  <<coord_id(r, c + 1), coord_id(r, c), FALSE>>]

\* the arcs one pass of an outer loop over the columns makes: rows-1 of
\* the inner loop, and one more when self.wrap
PerColumn == (rows - 1) + (IF wrap THEN 1 ELSE 0)

\* lines 183-195
NorthSouthArcs ==
    [n \in 1..(columns * PerColumn) |->
        LET c == (n - 1) \div PerColumn
            r == (n - 1) % PerColumn
        IN  IF r < rows - 1
            THEN <<coord_id(r, c), coord_id(r + 1, c), FALSE>>
            ELSE <<coord_id(rows - 1, c), coord_id(0, c), FALSE>>]

\* lines 198-210
SouthNorthArcs ==
    [n \in 1..(columns * PerColumn) |->
        LET c == (n - 1) \div PerColumn
            r == (n - 1) % PerColumn
        IN  IF r < rows - 1
            THEN <<coord_id(r + 1, c), coord_id(r, c), FALSE>>
            ELSE <<coord_id(0, c), coord_id(rows - 1, c), FALSE>>]

\* lines 214-226
NorthwestSoutheastArcs ==
    [n \in 1..((columns - 1) * PerColumn) |->
        LET c == (n - 1) \div PerColumn
            r == (n - 1) % PerColumn
        IN  IF r < rows - 1
            THEN <<coord_id(r, c), coord_id(r + 1, c + 1), FALSE>>
            ELSE <<coord_id(rows - 1, c), coord_id(0, c + 1), FALSE>>]

\* lines 230-242
SouthwestNortheastArcs ==
    [n \in 1..((columns - 1) * PerColumn) |->
        LET c == (n - 1) \div PerColumn
            r == (n - 1) % PerColumn
        IN  IF r < rows - 1
            THEN <<coord_id(r + 1, c), coord_id(r, c + 1), FALSE>>
            ELSE <<coord_id(0, c), coord_id(rows - 1, c + 1), FALSE>>]

\* lines 246-258
SoutheastNorthwestArcs ==
    [n \in 1..((columns - 1) * PerColumn) |->
        LET c == (n - 1) \div PerColumn
            r == (n - 1) % PerColumn
        IN  IF r < rows - 1
            THEN <<coord_id(r + 1, c + 1), coord_id(r, c), FALSE>>
            ELSE <<coord_id(0, c + 1), coord_id(rows - 1, c), FALSE>>]

\* lines 262-274
NortheastSouthwestArcs ==
    [n \in 1..((columns - 1) * PerColumn) |->
        LET c == (n - 1) \div PerColumn
            r == (n - 1) % PerColumn
        IN  IF r < rows - 1
            THEN <<coord_id(r, c + 1), coord_id(r + 1, c), FALSE>>
            ELSE <<coord_id(rows - 1, c + 1), coord_id(0, c), FALSE>>]

\* One pass of a loop body on the generator state st = [p |-> Rng.previous,
\* arcs |-> self._arcs]: the cost and the capacity are drawn, a skeleton row
\* then rolls twice (lines 156-171), and the arc is appended.
DrawArc(st, a) ==
    UNION { UNION {
        IF a[3]
        THEN UNION { {
                [p    |-> d4.p,
                 arcs |-> Append(st.arcs,
                     <<a[1], a[2],
                       IF d3.r <= hicost THEN maxcost ELSE d1.r,
                       IF d4.r <= capacitated THEN skeleton_cap
                                              ELSE P.supply>>)] :
                d4 \in Generate(P.rng, d3.p, 1, 100) } :
                d3 \in GenerateThen(P.rng, d2.p, 1, 100) }
        ELSE { [p    |-> d2.p,
                arcs |-> Append(st.arcs, <<a[1], a[2], d1.r, d2.r>>)] }
        : d2 \in (IF a[3] THEN GenerateThen(P.rng, d1.p, mincap, maxcap)
                          ELSE Generate(P.rng, d1.p, mincap, maxcap)) }
        : d1 \in GenerateThen(P.rng, st.p, mincost, maxcost) }

\* the generator states after the passes n .. Len(seq) of a loop nest
RECURSIVE DrawArcs(_, _, _)
DrawArcs(S, seq, n) ==
    IF n > Len(seq) THEN S
    ELSE DrawArcs(UNION { DrawArc(st, seq[n]) : st \in S }, seq, n + 1)

\* A loop nest of _create_problem, entered when the flag guarding it holds:
\* the first generate call raises ValueError when a bound is negative
\* (randit.py lines 94-95 and 148-149)
LoopNest(at, flag, seq, next) ==
    /\ pc = at
    /\ IF flag /\ Len(seq) > 0
          /\ (BadBounds(mincost, maxcost) \/ BadBounds(mincap, maxcap))
       THEN Raise("ValueError", IF P.rng = 0 THEN 149 ELSE 95)
       ELSE /\ \E st \in DrawArcs({[p |-> previous, arcs |-> arcs]},
                                  IF flag THEN seq ELSE <<>>, 1) :
                 /\ previous' = st.p
                 /\ arcs' = st.arcs
            /\ pc' = next
            /\ UNCHANGED <<seed, rngCall, proc, ilVars, P, err, arc_count,
                           nodes_left, b, ptype, arc_from, arc_to, arc_c,
                           arc_u, out, locVars>>

WestEast == LoopNest("grid_we", TRUE, WestEastArcs, "grid_ew")
EastWest == LoopNest("grid_ew", reverse, EastWestArcs, "grid_ns")
NorthSouth == LoopNest("grid_ns", TRUE, NorthSouthArcs, "grid_sn")
SouthNorth == LoopNest("grid_sn", TRUE, SouthNorthArcs, "grid_nwse")
NorthwestSoutheast ==
    LoopNest("grid_nwse", diagonal, NorthwestSoutheastArcs, "grid_swne")
SouthwestNortheast ==
    LoopNest("grid_swne", diagonal, SouthwestNortheastArcs, "grid_senw")
SoutheastNorthwest ==
    LoopNest("grid_senw", reverse /\ diagonal, SoutheastNorthwestArcs,
             "grid_nesw")
NortheastSouthwest ==
    LoopNest("grid_nesw", reverse /\ diagonal, NortheastSouthwestArcs,
             "grid_sink")

\* lines 277-279
MasterSinkArcs ==
    /\ pc = "grid_sink"
    /\ arcs' = arcs \o [r \in 1..rows |->
                 <<coord_id(r - 1, columns - 1), node_count, 0, P.supply>>]
    /\ pc' = "grid_done"
    /\ UNCHANGED gridVarsKept

\* write, lines 363-378: the lines written for the first n arcs of
\* self._arcs, the comments of markers=True among them
RECURSIVE GridArcLines(_, _)
GridArcLines(n, markers) ==
    IF n = 0 THEN <<>>
    ELSE LET x  == n - 1
             a  == arcs[n]
             m1 == IF markers /\ x = 0
                   THEN <<<<"c", "Master source arcs begin here">>>>
                   ELSE <<>>
             m2 == IF markers /\ x = rows
                   THEN <<<<"c", "Master source arcs end here">>>>
                        \o (IF skeleton > 0
                            THEN <<<<"c", "Skeleton arcs begin here">>>>
                            ELSE <<>>)
                   ELSE <<>>
             m3 == IF markers /\ skeleton > 0
                      /\ x = rows + (skeleton * (columns - 1))
                   THEN <<<<"c", "Skeleton arcs end here">>>>
                   ELSE <<>>
             m4 == IF markers /\ x = Len(arcs) - rows
                   THEN <<<<"c", "Master sink arcs begin here">>>>
                   ELSE <<>>
             m5 == IF markers /\ x = Len(arcs) - 1
                   THEN <<<<"c", "Master sink arcs end here">>>>
                   ELSE <<>>
         IN  GridArcLines(n - 1, markers) \o m1 \o m2 \o m3 \o m4
                 \o << <<"a", a[1], a[2], a[3], a[4]>> >> \o m5

\* write, lines 341-378: the problem line, the two node lines and the lines
\* of the arcs
GridWrite ==
    /\ pc = "grid_done"
    /\ \E markers \in BOOLEAN :
         out' = [p |-> <<"p", ProblemWord(ptype), node_count, arc_count>>,
                 n |-> IF ptype = 1
                       THEN << <<"n", 1, "s">>, <<"n", node_count, "t">> >>
                       ELSE << <<"n", 1, P.supply>>,
                               <<"n", node_count, -P.supply>> >>,
                 a |-> GridArcLines(Len(arcs), markers)]
    /\ pc' = "grid_written"
    /\ UNCHANGED <<rngVars, ilVars, P, err, arc_count, nodes_left, b, ptype,
                   arc_from, arc_to, arc_c, arc_u, arcs, locVars>>

\* the keyword arguments of GridNetworkGenerator, lines 24-27
GridRecord(sd, rw, cl, sk, dg, rv, wr, c1, c2, sp, hc, ca, u1, u2, rg, ty) ==
    [seed |-> sd, rows |-> rw, columns |-> cl, skeleton |-> sk,
     diagonal |-> dg, reverse |-> rv, wrap |-> wr, mincost |-> c1,
     maxcost |-> c2, supply |-> sp, hicost |-> hc, capacitated |-> ca,
     mincap |-> u1, maxcap |-> u2, rng |-> rg, type |-> ty]

BeforeGridInit(p) ==
    /\ P = p
    /\ pc = "grid_new"
    /\ seed = 0 /\ previous = 0
    /\ IndList = EmptyIndexList
    /\ NoObject

\* NetgenRandom grids of every shape and flag, with and without skeleton
\* rows, drawing costs of [1, 2] and capacities of [1, 2]
GridCalls ==
    \E sd \in 1..MaxSeed : \E rw \in 1..MaxRows : \E cl \in 1..MaxColumns :
    \E sk \in 0..rw : \E dg \in 0..1 : \E rv \in 0..1 :
    \E wr \in 0..1 : \E hc \in {0, 50} :
        BeforeGridInit(GridRecord(sd, rw, cl, sk, dg, rv, wr, 1, 2,
                                  MaxSupply + 1, hc, 50, 1, 2, 0, None))

\* StandardRandom grids of one row without skeleton rows: costs of [1, 1], capacities
\* of [1, 2], any draw of which may come out
StandardGridCalls ==
    \E rw \in 1..1 : \E cl \in 1..MaxColumns : \E dg \in 0..1 :
    \E rv \in 0..1 :
        BeforeGridInit(GridRecord(1, rw, cl, 0, dg, rv, 0, 1, 1,
                                  MaxSupply, 0, 100, 1, 2, 1, None))

\* calls that the constructor rejects, that a generate call ends, and calls
\* with a type override
BadGridCalls ==
    \E rw \in 0..1 : \E cl \in 0..MaxColumns : \E sk \in {0, 2} :
    \E c1 \in {-1, 1, 2} : \E hc \in {0, 101} : \E ca \in {-1, 100} :
    \E u1 \in {-1, 1, 2} : \E rg \in 0..2 : \E ty \in {None, 0, 1, 2} :
        /\ \/ GridValidationError(
                 GridRecord(1, rw, cl, sk, 1, 1, 0, c1, 1,
                            MaxSupply, hc, ca, u1, 1, rg, ty)) # 0
           \/ ty # None
           \/ c1 < 0 \/ u1 < 0
        /\ BeforeGridInit(GridRecord(1, rw, cl, sk, 1, 1, 0, c1, 1,
                                     MaxSupply, hc, ca, u1, 1, rg, ty))

InitGrid ==
    /\ \/ GridCalls
       \/ StandardGridCalls
       \/ BadGridCalls
    /\ rngCall = NoCall
    /\ ilCall = NoCall
    /\ proc = NoCall

NextGrid ==
    \/ GridInit
    \/ MasterSourceArcs
    \/ WestEast
    \/ EastWest
    \/ NorthSouth
    \/ SouthNorth
    \/ NorthwestSoutheast
    \/ SouthwestNortheast
    \/ SoutheastNorthwest
    \/ NortheastSouthwest
    \/ MasterSinkArcs
    \/ GridWrite

SpecGrid == InitGrid /\ [][NextGrid]_vars

-----------------------------------------------------------------------------
(* SpecSort: _sort_skeleton (netgen.py lines 347-360) called on lists of    *)
(* any content                                                             *)

MaxSortCount == 4
MaxTail == 2

\* the call self._sort_skeleton(sort_count, tail, head), line 254
SortSkeletonCall ==
    /\ pc = "sort_new"
    /\ LET th == SortSkeleton(sort_count, tail, head)
       IN  /\ tail' = th.tail
           /\ head' = th.head
    /\ pc' = "sorted"
    /\ UNCHANGED <<rngVars, ilVars, objVars, pred, sinks, i, source,
                   sort_count, sinks_per_source, chain_length,
                   supply_per_sink, k, it, phVars>>

\* tail and head are lists of one length with the places 0 and
\* sort_count + 1 beside the sorted part (line 255 writes the latter); the
\* tails are any numbers of 0..MaxTail, the heads are the places themselves
\* or all one node
InitSort ==
    /\ \E sc \in 0..MaxSortCount :
       \E tl \in [0..(MaxSortCount + 1) -> 0..MaxTail] :
       \E same \in BOOLEAN :
         /\ sort_count = sc
         /\ tail = tl
         /\ head = [x \in 0..(MaxSortCount + 1) |-> IF same THEN 1 ELSE x]
    /\ P = <<>> /\ pc = "sort_new"
    /\ seed = 0 /\ previous = 0
    /\ rngCall = NoCall /\ ilCall = NoCall /\ proc = NoCall
    /\ IndList = EmptyIndexList
    /\ err = NoErr
    /\ arc_count = 0 /\ nodes_left = 0 /\ ptype = 0
    /\ b = <<>> /\ arc_from = <<>> /\ arc_to = <<>>
    /\ arc_c = <<>> /\ arc_u = <<>>
    /\ out = <<>> /\ arcs = <<>>
    /\ pred = <<>> /\ sinks = <<>>
    /\ i = 0 /\ source = 0 /\ sinks_per_source = 0
    /\ chain_length = 0 /\ supply_per_sink = 0 /\ k = 0 /\ it = 0
    /\ limit = 0 /\ upper_bound = 0 /\ desired_tail = 0 /\ ph_ret = "none"

NextSort == SortSkeletonCall

SpecSort == InitSort /\ [][NextSort]_vars

-----------------------------------------------------------------------------
(* Properties of the generator objects of one process (SpecProc) *)

\* C15: generate(a, b) with a < 0 or b < 0 raises ValueError and returns
\* nothing, for either class, and leaves the objects (seed and previous) and
\* the random module as they were, so that the calls that follow return
\* what they would have returned without it.
C15_FailedGenerateChangesNothing ==
    (/\ proc.last.op \in {"generate", "ValueError"}
     /\ (proc.last.a < 0 \/ proc.last.b < 0))
    => /\ proc.last.op = "ValueError"
       /\ proc.last.ret = None
       /\ proc.objs = proc.last.before.objs
       /\ proc.mt = proc.last.before.mt

\* C15 happens: a StandardRandom that has drawn from the random module is
\* called with a negative bound
C15_Witness ==
    /\ proc.last.op = "ValueError"
    /\ proc.objs[proc.last.who].kind = 1
    /\ proc.mt.idx > 0
    /\ proc.last.b < 0

\* C17: what generate returns to the first object is what it would have
\* returned had no other object been constructed or called in the process.
C17_ValuesIndependentOfOtherObject ==
    (proc.last.who = 1 /\ proc.last.op = "generate") =>
        proc.last.ret = proc.last.alone

-----------------------------------------------------------------------------
(* Properties of the NETGEN generator (Spec) *)

\* the constructor has returned the object
Generated == pc \in {"done", "written"}

\* the arcs recorded so far, as <<from, to>> pairs
Endpoints == { <<arc_from[x], arc_to[x]>> : x \in 0..(arc_count - 1) }

\* C1: after generation of a network from any accepted parameter record the
\* supply vector sums to zero.
C1_SupplySumsToZero ==
    Generated => SumList(b, nodes) = 0

\* C2: arc_count never exceeds density, the arc arrays have no index at or
\* beyond density, and no arc is stored at an index that arc_count has not
\* passed.
C2_ArcCountWithinDensity ==
    pc \notin {"new", "rejected"} =>
        /\ arc_count <= density
        /\ \A arr \in {arc_from, arc_to, arc_c, arc_u} :
             /\ DOMAIN arr = 0..(density - 1)
             /\ \A x \in DOMAIN arr : arr[x] # None => x < arc_count

\* C2 happens: a network whose last free arc slot has been filled by
\* _pick_head.
C2_Witness ==
    /\ Generated
    /\ arc_count = density
    /\ density > nodes
    /\ arc_from[density - 1] # None

\* C3: every arc of a generated network has its tail and its head in
\* 1..nodes; node 0 never is an endpoint.
C3_EndpointsInRange ==
    Generated =>
        \A e \in Endpoints : e[1] \in 1..nodes /\ e[2] \in 1..nodes

\* C4: once validation has passed, no exception is raised: generation runs
\* to completion.
C4_NoErrorAfterValidation ==
    pc # "error"

C9_TypeIsOverride ==
    (P.type # None /\ pc \notin {"new", "rejected"}) =>
        /\ ptype = P.type
        /\ pc = "written" => out.p[2] = ProblemWord(P.type)

\* the network of an assignment problem: supply 1 at the first half of the
\* nodes, -1 at the second half, and one arc of capacity 1 from each source
\* to a node of its own among sources+1..nodes
AssignmentNetwork ==
    /\ b = [x \in 0..(nodes - 1) |-> IF x < nodes \div 2 THEN 1 ELSE -1]
    /\ \A s \in 1..(nodes \div 2) :
         \E x \in 0..(arc_count - 1) :
            /\ arc_from[x] = s /\ arc_u[x] = 1
            /\ arc_to[x] \in (sources + 1)..nodes
            /\ \A y \in 0..(arc_count - 1) :
                 (y # x /\ arc_u[y] = 1 /\ arc_from[y] \in 1..(nodes \div 2)
                    /\ arc_from[y] # s)
                 => arc_to[y] # arc_to[x]

\* C10: parameters that classify as an assignment problem (no override) get
\* the assignment generator: the constructor ends without an exception, and
\* with the assignment network.
C10_AssignmentGeneratorRuns ==
    (P.type = None /\ pc \notin {"new", "rejected"} /\ ptype = 2) =>
        /\ pc # "error"
        /\ Generated => AssignmentNetwork

\* the arcs recorded so far, as <<cost, capacity>> pairs
Attributes == { <<arc_c[x], arc_u[x]>> : x \in 0..(arc_count - 1) }

Successors(S) ==
    S \cup { arc_to[x] : x \in { y \in 0..(arc_count - 1) : arc_from[y] \in S } }

\* the nodes reached from S along at most n emitted arcs
RECURSIVE ReachableIn(_, _)
ReachableIn(S, n) ==
    IF n = 0 THEN S ELSE ReachableIn(Successors(S), n - 1)

\* the nodes to which a directed path of emitted arcs leads from node s
Reachable(s) == ReachableIn({s}, nodes + 1)

\* the sink nodes
SinkNodes == ((nodes - sinks_n) + 1)..nodes

\* the sink nodes linked to the chain of the current source: sinks[] holds
\* node numbers less one
LinkedSinks ==
    { sinks[x] + 1 : x \in 0..(sinks_per_source - 1) } \cap SinkNodes

\* the skeleton arcs of the current source and the arcs of _pick_head for
\* their tails have been emitted
SourceDone == pc = "skel_group" /\ i > sort_count

\* a step that takes supply from a node takes it from a node linked to the
\* chain of the current source
DecrementsLinked ==
    \A x \in DOMAIN b \cap DOMAIN b' :
        b'[x] < b[x] => x \in { sinks[y] : y \in 0..(sinks_per_source - 1) }

\* C12: supply is taken only from nodes linked to the chain of the source
\* that is being processed, and when a source has been processed, a directed
\* path of emitted arcs leads from it to every sink node linked to its chain.
C12_SkeletonPaths ==
    /\ [][DecrementsLinked]_vars
    /\ [](SourceDone => \A t \in LinkedSinks : t \in Reachable(source))

\* C12 happens: the last of two sources has been processed, and supply has
\* been taken from two sinks that its chain of at least one transshipment
\* node is linked to
C12_Witness ==
    /\ SourceDone
    /\ source = 2
    /\ chain_length > 0
    /\ \E t1, t2 \in LinkedSinks : t1 # t2 /\ b[t1 - 1] < 0 /\ b[t2 - 1] < 0

\* __init__ called with no argument: the defaults of lines 21-24
DefaultParameters ==
    Record(1, 10, 3, 3, 30, 10, 99, 1000, 0, 0, 0, 100, 100, 1000, 0, None)

\* C13: with the default parameters and the NETGEN generator no exception
\* is raised, and the generated network has density = 30 arcs.
C13_DefaultNetworkIsFull ==
    P = DefaultParameters =>
        /\ pc # "error"
        /\ Generated => arc_count = 30 /\ arc_count = density

\* C13 happens: the network of the default parameters has been generated
\* and its last arc slot is filled
C13_Witness ==
    /\ P = DefaultParameters
    /\ pc = "done"
    /\ arc_from[29] # None

\* _create_supply has returned: the step that adds the remainder (lines
\* 342-343) leaves the loop of the supplies
SupplyCreated == pc = "supply" /\ pc' \notin {"supply", "error"}

\* C20: when _create_supply returns, the supplies of the source nodes
\* b[0 .. sources-1] add up to the total supply and every other node has
\* supply 0, whatever the generator has drawn.
C20_SupplySumsToTotal ==
    [][SupplyCreated =>
          /\ sources >= 1 /\ supply >= 0
          /\ SumList(b', sources) = supply
          /\ \A x \in DOMAIN b' : x >= sources => b'[x] = 0]_vars

\* C20 happens: two or more sources have got a supply that does not divide
\* by their number, no supply has been handed to a sink yet, and one source
\* holds more than its even share
C20_Witness ==
    /\ pc \in {"phaseA", "phaseB", "collect"}
    /\ source = 1 /\ arc_count = 0
    /\ sources >= 2
    /\ supply % sources # 0
    /\ SumList(b, sources) = supply
    /\ \A x \in DOMAIN b : b[x] >= 0
    /\ \E x \in 0..(sources - 1) : b[x] > supply_per_source

\* pred has been initialised (line 170), _create_problem has not returned
\* and the constructor has not raised
ChainsStarted ==
    pc \notin {"new", "rejected", "dispatch", "supply", "error", "done",
               "written"}

\* following pred from nd comes to s within n steps
RECURSIVE ReturnsTo(_, _, _)
ReturnsTo(s, nd, n) ==
    IF nd = s THEN TRUE
    ELSE IF n = 0 \/ ~InRange(pred, nd) THEN FALSE
    ELSE IF pred[nd] = None THEN FALSE
    ELSE ReturnsTo(s, pred[nd], n - 1)

\* C21: from the initialisation of pred on, through every insertion of the
\* two phases and after them, following pred from every source s in
\* 1..sources comes back to s.
C21_PredChainsAreCycles ==
    ChainsStarted =>
        \A s \in 1..sources : ReturnsTo(s, pred[s], nodes)

\* _pick_head has passed the return of line 371 for the tail it was called
\* with
PickHeadTests ==
    /\ pc = "pick_head"
    /\ pc' # "error"
    /\ 2 * nodes_left' < remaining_arcs

\* C24: the divisions of _pick_head are truncated toward zero: the loop that
\* draws the limit is entered exactly when (remaining + non_sources -
\* pseudo_size - 1) div (nodes_left + 1) is less than non_sources - 1, and
\* the upper bound of its draws is 2 * ((remaining div (nodes_left + 1)) - 1).
C24_PickHeadDivisionsTruncate ==
    [][PickHeadTests =>
         /\ (pc' = "ph_limit") <=>
              (IntQuotient(((remaining_arcs + non_sources)
                               - PseudoSize(IndList)) - 1, nodes_left' + 1)
                 < non_sources - 1)
         /\ pc' = "ph_limit" =>
              upper_bound' =
                  2 * (IntQuotient(remaining_arcs, nodes_left' + 1) - 1)]_vars

\* the sequence s without the value v
Without(s, v) == SelectSeq(s, LAMBDA x : x # v)

\* C23: after the last source the loop over the transshipment sinks starts
\* at node nodes-sinks+1, every pass calls _pick_head once for its node i
\* with a new IndexList(sources-tsources+1, nodes) without i, and the loop
\* ends after the pass of node nodes-sinks+tsinks: tsinks calls in all.
C23_EveryTransshipmentSinkPicksHeads ==
    [][/\ (pc = "skel_group" /\ pc' = "tsinks")
            => i' = (nodes - sinks_n) + 1
       /\ (pc = "tsinks" /\ pc' = "pick_head")
            => /\ desired_tail' = i
               /\ i' = i + 1
               /\ i \in ((nodes - sinks_n) + 1)..((nodes - sinks_n) + tsinks)
               /\ IndList'.items
                    = Without(Range((sources - tsources) + 1, nodes), i)
       /\ (pc = "tsinks" /\ pc' = "done")
            => i = (nodes - sinks_n) + tsinks + 1]_vars

\* both loops of the chains have ended and _create_problem has not returned
ChainsDone == ChainsStarted /\ pc \notin {"phaseA", "phaseB"}

\* the nodes met on the way from nd along pred, s and the nodes after n
\* steps left out
RECURSIVE ChainFrom(_, _, _)
ChainFrom(s, nd, n) ==
    IF nd = s \/ n = 0 \/ ~InRange(pred, nd) THEN {}
    ELSE IF pred[nd] = None THEN {nd}
    ELSE {nd} \cup ChainFrom(s, pred[nd], n - 1)

\* C25: when the chains are built, every transshipment node of
\* sources+1..nodes-sinks is on the pred chain of exactly one source, and
\* pred holds nothing at node 0 or at a sink: nothing else was inserted.
C25_ChainsHoldEveryTransshipmentNode ==
    ChainsDone =>
        /\ \A t \in (sources + 1)..(nodes - sinks_n) :
             Cardinality({ s \in 1..sources :
                             t \in ChainFrom(s, pred[s], nodes) }) = 1
        /\ \A x \in DOMAIN pred :
             (x = 0 \/ x > nodes - sinks_n) => pred[x] = None

\* The constructor and write() have ended: the network is written, or an
\* exception or a rejected argument ended the call.
Ended == pc \in {"written", "error", "rejected"}

\* The values generate(1, upper_bound) can return (randit.py lines 165-169)
LimitDraws == IF upper_bound <= 1 THEN {upper_bound} ELSE 1..upper_bound

\* the test of line 383 on the limit lim
LimitAccepted(lim) == nodes_left * (non_sources - 1) >= remaining_arcs - lim

\* Whenever the loop that draws the limit is entered, it
\* can be left: nodes_left is 0, or some limit of 1..upper_bound meets the test
\* nodes_left*(non_sources-1) >= remaining_arcs - limit.
LimitLoopCanExit ==
    pc = "ph_limit" =>
        \/ nodes_left = 0
        \/ \E lim \in 1..upper_bound : LimitAccepted(lim)

\* C26: every invocation of _pick_head returns, and the generation as a whole
\* ends, when the draws of the random number generator are fair.
C26_PickHeadTerminates ==
    /\ [](LimitLoopCanExit)
    /\ (pc \in {"pick_head", "ph_limit", "ph_arcs"})
           ~> (pc \notin {"pick_head", "ph_limit", "ph_arcs"})
    /\ <>Ended

\* The loop is entered with StandardRandom where one draw is accepted and
\* two others are rejected.
C26_Witness ==
    /\ pc = "ph_limit"
    /\ P.rng = 1
    /\ nodes_left > 0
    /\ \E lim \in LimitDraws : LimitAccepted(lim)
    /\ \E l1, l2 \in LimitDraws :
         l1 # l2 /\ ~LimitAccepted(l1) /\ ~LimitAccepted(l2)

\* C27: the completed arc list has no self-loop, and no two arcs with the same
\* (from, to).
C27_NoSelfLoopNoDuplicateArc ==
    Generated =>
        /\ \A x \in 0..(arc_count - 1) : arc_from[x] # arc_to[x]
        /\ \A x, y \in 0..(arc_count - 1) :
             (arc_from[x] = arc_from[y] /\ arc_to[x] = arc_to[y]) => x = y

\* the sinks of the current source are selected (lines 220-232 are done)
SinksSelected == pc \in {"distribute", "sortskel"}

\* C28: for every source, the selected sinks are pairwise distinct 0-based
\* indices of nodes-sinks..nodes-1 (no 0 of a failed pop among them), and the
\* sink linkage changes the supply entry b[0..sources) of no source.
C28_SelectedSinksAreDistinctSinks ==
    /\ [](SinksSelected =>
            /\ \A x \in 0..(sinks_per_source - 1) :
                 sinks[x] \in (nodes - sinks_n)..(nodes - 1)
            /\ \A x, y \in 0..(sinks_per_source - 1) :
                 sinks[x] = sinks[y] => x = y)
    /\ [][SinksSelected => \A x \in 0..(sources - 1) : b'[x] = b[x]]_vars

-----------------------------------------------------------------------------
(* Properties of IndexList (SpecIL) *)

\* the last call was pop with an index that is no position of the list
InvalidPop ==
    /\ ilCall.op = "pop"
    /\ (ilCall.arg < 1 \/ ilCall.arg > Length(ilCall.before))

ValidPop ==
    /\ ilCall.op = "pop"
    /\ 1 <= ilCall.arg /\ ilCall.arg <= Length(ilCall.before)

\* C14: pop with 1 <= index <= len returns the element at that position,
\* counted from 1, deletes that element and no other, keeps the order of the
\* others and takes one from pseudo_size (which stays at 0 when it is 0);
\* after any calls of pop and remove the list is strictly ascending and
\* holds elements of the initial list only.
C14_ValidPopTakesPosition ==
    /\ ValidPop =>
          LET was == ilCall.before.items
          IN  /\ ilCall.ret = was[ilCall.arg]
              /\ IndList.items =
                    [x \in 1..(Len(was) - 1) |->
                        IF x < ilCall.arg THEN was[x] ELSE was[x + 1]]
              /\ PseudoSize(IndList) = Max(0, PseudoSize(ilCall.before) - 1)
    /\ ilCall.op # "none" =>
          /\ \A x \in 1..(Length(IndList) - 1) :
                 IndList.items[x] < IndList.items[x + 1]
          /\ \A x \in 1..Length(IndList) :
                 \E y \in 1..Len(ilCall.list0) :
                    ilCall.list0[y] = IndList.items[x]

\* C14 happens: an element between two others has been popped, after
\* another call
C14_Witness ==
    /\ ValidPop
    /\ 1 < ilCall.arg /\ ilCall.arg < Length(ilCall.before)
    /\ ilCall.calls > 1
    /\ PseudoSize(ilCall.before) > 0

\* C29: in every state of an IndexList that pop/choose_index and
\* remove/remove_index reach, 0 <= pseudo_size <= len(); hence whatever
\* generate(1, pseudo_size) returns, with either generator, is a position
\* 1..len() of the list whenever pseudo_size >= 1.
C29_PseudoSizeWithinLength ==
    /\ 0 <= PseudoSize(IndList)
    /\ PseudoSize(IndList) <= Length(IndList)
    /\ PseudoSize(IndList) >= 1 =>
         \A kind \in {0, 1} : \A s \in 1..MaxSeed :
         \A d \in Generate(kind, s, 1, PseudoSize(IndList)) :
             1 <= d.r /\ d.r <= Length(IndList)

\* C29 happens: a pop has taken an element of a list whose pseudo size a
\* remove of an absent value had made less than its length
C29_Witness ==
    /\ ilCall.op = "pop"
    /\ ilCall.ret # 0
    /\ ilCall.calls >= 2
    /\ 1 <= PseudoSize(IndList)
    /\ PseudoSize(IndList) < Length(IndList)

-----------------------------------------------------------------------------
(* Properties of NetgenRandom (SpecRng) *)

\* C7: generate(a, b) with a, b >= 0 advances self.previous by one step of
\* the hi/lo transform, also when b <= a; it returns b when b <= a and
\* a + previous mod (b - a + 1) of the new previous otherwise, which lies in
\* [a, b].
C7_GenerateAdvancesOnce ==
    rngCall.op = "generate" =>
        /\ previous = NextPrevious(rngCall.before)
        /\ previous # rngCall.before
        /\ rngCall.ret = IF rngCall.b <= rngCall.a
                         THEN rngCall.b
                         ELSE rngCall.a
                                + (previous % ((rngCall.b - rngCall.a) + 1))
        /\ rngCall.b > rngCall.a => rngCall.ret \in rngCall.a..rngCall.b

\* C7 happens: a generate call with b < a that has advanced the state
C7_Witness ==
    /\ rngCall.op = "generate"
    /\ rngCall.b < rngCall.a
    /\ rngCall.ret = rngCall.b
    /\ previous = NextPrevious(rngCall.before)

-----------------------------------------------------------------------------
(* Properties of _sort_skeleton (SpecSort) *)

\* how many of the places 1..sc of the lists tl and hd hold the pair p
PairCount(tl, hd, sc, p) ==
    Cardinality({ x \in 1..sc : <<tl[x], hd[x]>> = p })

\* C22: _sort_skeleton(sort_count, tail, head) leaves tail[1..sort_count]
\* in nondecreasing order, leaves the pairs (tail[i], head[i]) of
\* 1..sort_count the same multiset, and leaves every place outside
\* 1..sort_count as it was.
C22_SortSkeletonSortsPairs ==
    [][pc = "sort_new" =>
         /\ \A x \in 1..(sort_count - 1) : tail'[x] <= tail'[x + 1]
         /\ \A x \in 1..sort_count :
              /\ PairCount(tail', head', sort_count, <<tail[x], head[x]>>)
                   = PairCount(tail, head, sort_count, <<tail[x], head[x]>>)
              /\ PairCount(tail', head', sort_count, <<tail'[x], head'[x]>>)
                   = PairCount(tail, head, sort_count, <<tail'[x], head'[x]>>)
         /\ DOMAIN tail' = DOMAIN tail /\ DOMAIN head' = DOMAIN head
         /\ \A x \in DOMAIN tail \ (1..sort_count) :
              tail'[x] = tail[x] /\ head'[x] = head[x]]_vars

\* C22 happens: four arcs were sorted, two of them with one tail, and the
\* heads, which were the places 1..4, show that the first and the last arc
\* have changed places with others
C22_Witness ==
    /\ pc = "sorted"
    /\ sort_count = 4
    /\ tail[1] < tail[2] /\ tail[2] = tail[3] /\ tail[3] < tail[4]
    /\ head[1] # 1 /\ head[4] # 4
    /\ { head[x] : x \in 1..4 } = 1..4
    /\ tail[5] < tail[4]

\* (x + y) mod Modulus for x and y of 0..Modulus-1, without a sum above
\* Modulus
AddMod(x, y) == IF x >= Modulus - y THEN x - (Modulus - y) ELSE x + y

\* (a * x) mod Modulus by doubling, for a >= 0 and x of 0..Modulus-1
RECURSIVE MulMod(_, _)
MulMod(a, x) ==
    IF a = 0 THEN 0
    ELSE LET h == MulMod(a \div 2, x)
             d == AddMod(h, h)
         IN  IF a % 2 = 1 THEN AddMod(d, x) ELSE d

\* the values hi and lo take while generate runs on self.previous = s
Intermediate(s) ==
    LET h == HiLo(s)
    IN  {h.hi[n] : n \in 1..3} \cup {h.lo[n] : n \in 1..4} \cup {h.sum}

\* C30: self.previous of a NetgenRandom stays in 1..2^31-2: a generate call
\* on a previous of that range leaves it equal to (16807 * old previous)
\* mod (2^31-1), never 0 or negative, and no value of the hi/lo computation
\* leaves the range of a signed 32-bit (hence 64-bit) integer.
C30_PreviousIsLehmerStep ==
    /\ previous \in 1..(Modulus - 1)
    /\ (rngCall.op = "generate" /\ rngCall.before \in 1..(Modulus - 1)) =>
         /\ previous = MulMod(Multiplier, rngCall.before)
         /\ \A x \in Intermediate(rngCall.before) :
              -Modulus <= x /\ x <= Modulus

\* C30 happens: generate has run on the largest previous, 2^31-2, and on a
\* previous whose sum of line 161 needs no correction
C30_Witness ==
    /\ rngCall.op = "generate"
    /\ \/ rngCall.before = Modulus - 1 /\ previous = Modulus - Multiplier
       \/ rngCall.before = 1407677000 /\ previous = 1
    /\ rngCall.calls >= 2

-----------------------------------------------------------------------------
(* Properties of the two writers and of the grid generator (SpecGrid) *)

\* the 'a' lines among the lines write() has put after the node lines
ArcLines(o) == SelectSeq(o.a, LAMBDA l : l[1] = "a")

\* the number of arcs the generator object has made: the filled places of
\* self._from (netgen.py), the length of self._arcs (grid.py)
ArcsGenerated ==
    IF pc = "grid_written" THEN Len(arcs)
    ELSE Cardinality({ x \in DOMAIN arc_from : arc_from[x] # None })

\* C18: once either writer has written, the arc count on the problem line
\* 'p <type> <n> <m>' is the number of 'a' lines that follow it, and that is
\* the number of arcs generated.
C18_ProblemLineCountsArcLines ==
    pc \in {"written", "grid_written"} =>
        /\ out.p[4] = Len(ArcLines(out))
        /\ Len(ArcLines(out)) = ArcsGenerated

\* C19: in a generated grid the master source (node 1) has an arc to the
\* node r*columns + 2 of every row r, the first column, and the master sink
\* (node rows*columns + 2) has an arc from the node r*columns + columns + 1
\* of every row r, the last column.
C19_MasterArcsJoinOuterColumns ==
    pc \in {"grid_done", "grid_written"} =>
        \A r \in 0..(rows - 1) :
            /\ \E x \in DOMAIN arcs :
                 arcs[x][1] = 1 /\ arcs[x][2] = (r * columns) + 2
            /\ \E x \in DOMAIN arcs :
                 /\ arcs[x][1] = (r * columns) + columns + 1
                 /\ arcs[x][2] = (rows * columns) + 2

====
